---- MODULE Spec2Model ----
(***************************************************************************)
(* A model of the natiu-mqtt client: the fixed-header and variable-header  *)
(* decoders that Rx.ReadNextPacket drives, the Tx write functions, the     *)
(* clientState session record with its Rx/Tx callbacks, and the Client     *)
(* facade (HandleNext, StartConnect, Connect, Disconnect, StartSubscribe,  *)
(* StartPing, PublishPayload) with its rxlock and txlock.                  *)
(*                                                                         *)
(* Spec     : one goroutine calls the client, one method at a time.        *)
(* SpecConc : one goroutine connects and runs the read loop (HandleNext)   *)
(*            while another calls the client's other methods and           *)
(*            IsConnected.                                                 *)
(* SpecPar  : two goroutines, each calling any method of the client.       *)
(* SpecRxTx : an Rx, a Tx or a Header used without the client.             *)
(* A step is the code between two lock acquisitions or transport           *)
(* operations; the goroutines' steps interleave.                           *)
(***************************************************************************)
EXTENDS Integers, Sequences, FiniteSets, TLC

(***************************************************************************)
(* Bounds of the model.                                                    *)
(***************************************************************************)
\* The wall clock read by time.Now() takes the values 1..MaxTime.
MaxTime == 2
\* StartSubscribe is not called once activeSubs holds this many topics.
MaxActiveSubs == 2

(***************************************************************************)
(* Program constants.                                                      *)
(***************************************************************************)
maxRemainingLengthSize == 4
PacketConnect == 1
PacketConnack == 2
PacketPublish == 3
PacketPuback == 4
PacketPubrec == 5
PacketPubrel == 6
PacketPubcomp == 7
PacketSubscribe == 8
PacketSuback == 9
PacketUnsubscribe == 10
PacketUnsuback == 11
PacketPingreq == 12
PacketPingresp == 13
PacketDisconnect == 14
QoS0 == 0
QoS2 == 2
QoSSubfail == 128
\* len(cfg.Decoder.UserBuffer) of the decoder NewClient picks (4*1024).
UserBufferLen == 4096

(***************************************************************************)
(* Errors. A Go error value is a record; Nil is the nil error. A           *)
(* ConnectReturnCode returned as an error keeps its code.                  *)
(***************************************************************************)
Nil == [kind |-> "nil", code |-> 0]
Err(k) == [kind |-> k, code |-> 0]
ErrEOF == Err("io.EOF")
ErrClosed == Err("net.ErrClosed")
ErrTimeout == Err("i/o timeout")
ErrBadRemainingLen == Err("natiu-mqtt: MQTT v3.1.1 bad remaining length")
ErrUserBufferFull == Err("natiu-mqtt: user buffer full")
errDisconnected == Err("natiu-mqtt: disconnected")
errGotZeroPI == Err("packet identifier must be nonzero for packet type")
errEmptyTopic == Err("empty topic")
ReturnCodeErr(rc) == [kind |-> "ConnectReturnCode", code |-> rc]

(***************************************************************************)
(* The transport's read side as the decoders see it: buf holds the bytes   *)
(* the peer has sent and that are not yet read, tail is the error Read     *)
(* returns once buf is empty (io.EOF, a read deadline, a closed            *)
(* connection).                                                            *)
(***************************************************************************)
Reader(bytes, tailErr) == [buf |-> bytes, tail |-> tailErr]

Min(a, b) == IF a < b THEN a ELSE b

\* dst[:k] after the read: the bytes read, the rest still zero.
Padded(bytes, k) == [i \in 1..k |-> IF i <= Len(bytes) THEN bytes[i] ELSE 0]

\* decodeByte: one Read into a 1-byte buffer.
decodeByte(r) ==
    IF Len(r.buf) > 0
    THEN [value |-> Head(r.buf), err |-> Nil, r |-> [r EXCEPT !.buf = Tail(@)]]
    ELSE [value |-> 0, err |-> r.tail, r |-> r]

\* readFull: one Read; after a short read without error io.CopyBuffer drains
\* the source until it fails, and io.EOF from the source ends the copy with a
\* nil error.
readFull(r, k) ==
    IF k = 0 \/ Len(r.buf) >= k
    THEN [data |-> SubSeq(r.buf, 1, k), n |-> k, err |-> Nil,
          r |-> [r EXCEPT !.buf = SubSeq(@, k + 1, Len(@))]]
    ELSE IF Len(r.buf) = 0
    THEN [data |-> Padded(<<>>, k), n |-> 0, err |-> r.tail, r |-> r]
    ELSE [data |-> Padded(r.buf, k), n |-> Len(r.buf),
          err |-> IF r.tail = ErrEOF THEN Nil ELSE r.tail,
          r |-> [r EXCEPT !.buf = <<>>]]

\* A result of an earlier read is handed on as the parameter of a local
\* operator, as the code hands on its local variables.
decodeUint16(r) ==
    LET result(x) ==
            [value |-> x.data[1] * 256 + x.data[2], n |-> x.n,
             err |-> IF x.err = ErrEOF /\ x.n = 2 THEN Nil ELSE x.err, r |-> x.r]
    IN  result(readFull(r, 2))

\* value and multiplier are uint32: over at most maxRemainingLengthSize bytes
\* they stay below 2^28, so the arithmetic never wraps.
RECURSIVE remlenLoop(_, _, _, _, _)
remlenLoop(r, i, value, multiplier, n) ==
    LET step(b, v) ==
            IF b.err # Nil
            THEN [value |-> value, n |-> n, err |-> b.err, r |-> b.r]
            ELSE IF (b.value \div 128) % 2 # 0
            THEN [value |-> v, n |-> n + 1, err |-> Nil, r |-> b.r]
            ELSE remlenLoop(b.r, i + 1, v, multiplier * 128, n + 1)
        read(b) == step(b, value + (b.value % 128) * multiplier)
    IN  IF i >= maxRemainingLengthSize
        THEN [value |-> 0, n |-> n, err |-> Err("malformed remaining length"), r |-> r]
        ELSE read(decodeByte(r))

decodeRemainingLength(r) == remlenLoop(r, 0, 0, 1, 0)

\* Header.Type, Header.Flags, PacketFlags.QoS
Type(h) == h.firstByte \div 16
Flags(h) == h.firstByte % 16
QoS(pf) == (pf \div 2) % 4

ZeroHeader == [firstByte |-> 0, RemainingLength |-> 0]

validateFlags(p, flag4bits) ==
    LET onlyBit1Set == flag4bits \in {0, 2}
        isControlPacket == p \in {PacketPubrel, PacketSubscribe, PacketUnsubscribe}
    IN  IF p = PacketPublish \/ (onlyBit1Set /\ isControlPacket)
           \/ (~isControlPacket /\ flag4bits = 0)
        THEN Nil
        ELSE IF isControlPacket
        THEN Err("control packet bit not set (0b0010)")
        ELSE Err("expected 0b0000 flag for packet type")

DecodeHeader(r) ==
    LET checked(fb, rl, n, packetType, flagErr) ==
            IF rl.err # Nil
            THEN [hdr |-> ZeroHeader, n |-> n, err |-> rl.err, r |-> rl.r]
            ELSE IF packetType = 0 \/ packetType > PacketDisconnect
            THEN [hdr |-> ZeroHeader, n |-> n, err |-> Err("invalid packet type"), r |-> rl.r]
            ELSE IF flagErr # Nil
            THEN [hdr |-> ZeroHeader, n |-> n, err |-> flagErr, r |-> rl.r]
            ELSE [hdr |-> [firstByte |-> fb.value, RemainingLength |-> rl.value],
                  n |-> n, err |-> Nil, r |-> rl.r]
        withLength(fb, rl) ==
            checked(fb, rl, 1 + rl.n, fb.value \div 16,
                    validateFlags(fb.value \div 16, fb.value % 16))
        withFirstByte(fb) ==
            IF fb.err # Nil
            THEN [hdr |-> ZeroHeader, n |-> 0, err |-> fb.err, r |-> fb.r]
            ELSE withLength(fb, decodeRemainingLength(fb.r))
    IN  withFirstByte(decodeByte(r))

(***************************************************************************)
(* Variable-header decoders of the non-allocating decoder. The user buffer *)
(* is modelled by its length: a decoded string is a view of its head.      *)
(***************************************************************************)
\* decodeMQTTString: the string is returned with the error of a failed read.
decodeMQTTString(r, buflen) ==
    LET withData(l, x) ==
            [str |-> x.data, n |-> l.n + x.n,
             err |-> IF x.err = ErrEOF /\ x.n = l.value THEN Nil ELSE x.err,
             r |-> x.r]
        withLength(l) ==
            IF l.err # Nil
            THEN [str |-> <<>>, n |-> l.n, err |-> l.err, r |-> l.r]
            ELSE IF l.value = 0
            THEN [str |-> <<>>, n |-> l.n, err |-> Err("zero length MQTT string"), r |-> l.r]
            ELSE IF l.value > buflen % 65536
            THEN [str |-> <<>>, n |-> l.n, err |-> ErrUserBufferFull, r |-> l.r]
            ELSE withData(l, readFull(l.r, l.value))
    IN  IF buflen < 2
        THEN [str |-> <<>>, n |-> 0, err |-> ErrUserBufferFull, r |-> r]
        ELSE withLength(decodeUint16(r))

ZeroConnack == [AckFlags |-> 0, ReturnCode |-> 0]

\* VariablesConnack.validate
validate(vc) ==
    IF vc.AckFlags > 1
    THEN Err("CONNACK Ack flag bits 7-1 must be set to 0")
    ELSE Nil

DecodeConnack(r) ==
    LET checked(x, varConnack, invalid) ==
            IF x.err # Nil
            THEN [vc |-> ZeroConnack, n |-> x.n, err |-> x.err, r |-> x.r]
            ELSE IF invalid # Nil
            THEN [vc |-> ZeroConnack, n |-> x.n, err |-> invalid, r |-> x.r]
            ELSE [vc |-> varConnack, n |-> x.n, err |-> Nil, r |-> x.r]
        withVars(x, varConnack) == checked(x, varConnack, validate(varConnack))
        withData(x) == withVars(x, [AckFlags |-> x.data[1], ReturnCode |-> x.data[2]])
    IN  withData(readFull(r, 2))

ZeroSuback == [PacketIdentifier |-> 0, ReturnCodes |-> <<>>]

RECURSIVE subackLoop(_, _, _, _)
subackLoop(r, remainingLen, vs, n) ==
    LET withCode(q) ==
            IF q.err # Nil
            THEN [vs |-> ZeroSuback, n |-> n, err |-> q.err, r |-> q.r]
            ELSE subackLoop(q.r, remainingLen,
                            [vs EXCEPT !.ReturnCodes = Append(@, q.value)], n + 1)
    IN  IF n >= remainingLen
        THEN [vs |-> vs, n |-> n, err |-> Nil, r |-> r]
        ELSE withCode(decodeByte(r))

DecodeSuback(r, remainingLen) ==
    LET withPI(pi) ==
            IF pi.err # Nil
            THEN [vs |-> ZeroSuback, n |-> pi.n, err |-> pi.err, r |-> pi.r]
            ELSE subackLoop(pi.r, remainingLen,
                            [PacketIdentifier |-> pi.value, ReturnCodes |-> <<>>], pi.n)
    IN  withPI(decodeUint16(r))

ZeroPublish == [TopicName |-> <<>>, PacketIdentifier |-> 0]

DecodePublish(r, qos, buflen) ==
    LET withPI(t, pi) ==
            IF pi.err # Nil
            THEN [vp |-> ZeroPublish, n |-> t.n + pi.n, err |-> pi.err, r |-> pi.r]
            ELSE [vp |-> [TopicName |-> t.str, PacketIdentifier |-> pi.value],
                  n |-> t.n + pi.n, err |-> Nil, r |-> pi.r]
        withTopic(t) ==
            IF t.err # Nil
            THEN [vp |-> ZeroPublish, n |-> t.n, err |-> t.err, r |-> t.r]
            ELSE IF qos \in {1, 2}
            THEN withPI(t, decodeUint16(t.r))
            ELSE [vp |-> [TopicName |-> t.str, PacketIdentifier |-> 0],
                  n |-> t.n, err |-> Nil, r |-> t.r]
    IN  withTopic(decodeMQTTString(r, buflen))

\* A slice expression payloadDst[k:] with k > len(payloadDst) panics.
ErrPanic == Err("panic: slice bounds out of range")

RECURSIVE subscribeLoop(_, _, _, _, _)
subscribeLoop(r, remainingLen, buflen, filters, n) ==
    LET withQoS(hot, q) ==
            IF q.err # Nil
            THEN [filters |-> <<>>, n |-> n + hot.n, err |-> q.err, r |-> q.r]
            ELSE subscribeLoop(q.r, remainingLen, buflen - hot.n,
                               Append(filters, [TopicFilter |-> hot.str, QoS |-> q.value]),
                               n + hot.n + 1)
        withFilter(hot) ==
            IF hot.n > buflen
            THEN [filters |-> <<>>, n |-> n + hot.n, err |-> ErrPanic, r |-> hot.r]
            ELSE IF hot.err # Nil
            THEN [filters |-> <<>>, n |-> n + hot.n, err |-> hot.err, r |-> hot.r]
            ELSE withQoS(hot, decodeByte(hot.r))
    IN  IF n >= remainingLen
        THEN [filters |-> filters, n |-> n, err |-> Nil, r |-> r]
        ELSE withFilter(decodeMQTTString(r, buflen))

DecodeSubscribe(r, remainingLen, buflen) ==
    LET withPI(pi) ==
            IF pi.err # Nil
            THEN [filters |-> <<>>, n |-> pi.n, err |-> pi.err, r |-> pi.r]
            ELSE subscribeLoop(pi.r, remainingLen, buflen, <<>>, pi.n)
    IN  withPI(decodeUint16(r))

RECURSIVE unsubscribeLoop(_, _, _, _, _)
unsubscribeLoop(r, remainingLength, buflen, topics, n) ==
    LET withTopic(cold) ==
            IF cold.n > buflen
            THEN [topics |-> <<>>, n |-> n + cold.n, err |-> ErrPanic, r |-> cold.r]
            ELSE IF cold.err # Nil
            THEN [topics |-> <<>>, n |-> n + cold.n, err |-> cold.err, r |-> cold.r]
            ELSE unsubscribeLoop(cold.r, remainingLength, buflen - cold.n,
                                 Append(topics, cold.str), n + cold.n)
    IN  IF n >= remainingLength
        THEN [topics |-> topics, n |-> n, err |-> Nil, r |-> r]
        ELSE withTopic(decodeMQTTString(r, buflen))

DecodeUnsubscribe(r, remainingLength, buflen) ==
    LET withPI(pi) ==
            IF pi.err # Nil
            THEN [topics |-> <<>>, n |-> pi.n, err |-> pi.err, r |-> pi.r]
            ELSE unsubscribeLoop(pi.r, remainingLength, buflen, <<>>, pi.n)
    IN  withPI(decodeUint16(r))

\* DecodeConnect, from the username on. Only n, err and the reader are kept
\* of a decoded CONNECT: the client sets no OnConnect callback.
connectCredentials(r, buflen, n, userNameFlag, passwordFlag) ==
    LET withPassword(un, pw) == [n |-> n + un.n + pw.n, err |-> pw.err, r |-> pw.r]
        withUsername(un) ==
            IF un.err # Nil \/ ~passwordFlag
            THEN [n |-> n + un.n, err |-> un.err, r |-> un.r]
            ELSE IF un.n > buflen
            THEN [n |-> n + un.n, err |-> ErrPanic, r |-> un.r]
            ELSE withPassword(un, decodeMQTTString(un.r, buflen - un.n))
    IN  IF ~userNameFlag
        THEN [n |-> n, err |-> Nil, r |-> r]
        ELSE withUsername(decodeMQTTString(r, buflen))

\* DecodeConnect, from the will topic on.
connectWill(r, buflen, n, willFlag, userNameFlag, passwordFlag) ==
    LET withMessage(wt, wm) ==
            IF wm.err # Nil
            THEN [n |-> n + wt.n + wm.n, err |-> wm.err, r |-> wm.r]
            ELSE IF wm.n > buflen - wt.n
            THEN [n |-> n + wt.n + wm.n, err |-> ErrPanic, r |-> wm.r]
            ELSE connectCredentials(wm.r, buflen - wt.n - wm.n, n + wt.n + wm.n,
                                    userNameFlag, passwordFlag)
        withTopic(wt) ==
            IF wt.err # Nil
            THEN [n |-> n + wt.n, err |-> wt.err, r |-> wt.r]
            ELSE IF wt.n > buflen
            THEN [n |-> n + wt.n, err |-> ErrPanic, r |-> wt.r]
            ELSE withMessage(wt, decodeMQTTString(wt.r, buflen - wt.n))
    IN  IF ~willFlag
        THEN connectCredentials(r, buflen, n, userNameFlag, passwordFlag)
        ELSE withTopic(decodeMQTTString(r, buflen))

\* DecodeConnect. The count n leaves out the bytes of the client identifier.
DecodeConnect(r, buflen) ==
    LET withClientID(proto, flags, n, clientID) ==
            IF clientID.err # Nil
            THEN [n |-> n, err |-> clientID.err, r |-> clientID.r]
            ELSE IF clientID.n > buflen - proto.n
            THEN [n |-> n, err |-> ErrPanic, r |-> clientID.r]
            ELSE connectWill(clientID.r, buflen - proto.n - clientID.n, n,
                             (flags.value \div 4) % 2 # 0,
                             (flags.value \div 128) % 2 # 0,
                             (flags.value \div 64) % 2 # 0)
        withKeepAlive(proto, flags, keepAlive) ==
            IF keepAlive.err # Nil
            THEN [n |-> proto.n + 2 + keepAlive.n, err |-> keepAlive.err, r |-> keepAlive.r]
            ELSE withClientID(proto, flags, proto.n + 2 + keepAlive.n,
                              decodeMQTTString(keepAlive.r, buflen - proto.n))
        withFlags(proto, flags) ==
            LET userNameFlag == (flags.value \div 128) % 2 # 0
                passwordFlag == (flags.value \div 64) % 2 # 0
            IN  IF flags.err # Nil
                THEN [n |-> proto.n + 1, err |-> flags.err, r |-> flags.r]
                ELSE IF flags.value % 2 # 0
                THEN [n |-> proto.n + 2, err |-> Err("reserved bit set in CONNECT flag"),
                      r |-> flags.r]
                ELSE IF passwordFlag /\ ~userNameFlag
                THEN [n |-> proto.n + 2,
                      err |-> Err("username flag must be set to use password flag"),
                      r |-> flags.r]
                ELSE withKeepAlive(proto, flags, decodeUint16(flags.r))
        withLevel(proto, level) ==
            IF level.err # Nil
            THEN [n |-> proto.n, err |-> level.err, r |-> level.r]
            ELSE withFlags(proto, decodeByte(level.r))
        withProtocol(proto) ==
            IF proto.err # Nil
            THEN [n |-> proto.n, err |-> proto.err, r |-> proto.r]
            ELSE IF proto.n > buflen
            THEN [n |-> proto.n, err |-> ErrPanic, r |-> proto.r]
            ELSE withLevel(proto, decodeByte(proto.r))
    IN  withProtocol(decodeMQTTString(r, buflen))

(***************************************************************************)
(* clientState: the session record and the callbacks it installs in Rx and *)
(* Tx. A time.Time is a number, 0 the zero time.                           *)
(***************************************************************************)
ZeroSubscribe == [PacketIdentifier |-> 0, TopicFilters |-> <<>>]

\* NewClient: clientState{closeErr: errors.New("yet to connect")}
NewClientState ==
    [lastRx |-> 0, lastTx |-> 0, connectedAt |-> 0, activeSubs |-> <<>>,
     pendingPingreq |-> 0, pendingPingresp |-> 0,
     closeErr |-> Err("yet to connect"), pendingSubs |-> ZeroSubscribe]

\* A faulty onConnect that keeps the subscriptions of the previous session;
\* C2 fails with it.
onConnectKeepsActiveSubs(c, t) ==
    [c EXCEPT !.closeErr = Nil, !.lastRx = t, !.connectedAt = t,
              !.pendingSubs = ZeroSubscribe]

onConnect(c, t) ==
    [c EXCEPT !.closeErr = Nil, !.activeSubs = <<>>, !.lastRx = t,
              !.connectedAt = t, !.pendingSubs = ZeroSubscribe]

\* A faulty onDisconnect that leaves connectedAt; C1 fails with it.
onDisconnectKeepsConnectedAt(c, err) ==
    [c EXCEPT !.closeErr = err, !.lastRx = 0, !.lastTx = 0,
              !.pendingPingreq = 0, !.pendingPingresp = 0,
              !.pendingSubs = ZeroSubscribe]

onDisconnect(c, err) ==
    [c EXCEPT !.closeErr = err, !.connectedAt = 0, !.lastRx = 0, !.lastTx = 0,
              !.pendingPingreq = 0, !.pendingPingresp = 0,
              !.pendingSubs = ZeroSubscribe]

IsConnected(c) == c.closeErr = Nil

AwaitingSuback(c) == Len(c.pendingSubs.TopicFilters) > 0

AwaitingPingresp(c) == c.pendingPingresp # 0

\* A faulty PingSent that keeps the time of an unanswered ping; C12 fails
\* with it.
PingSentKeepsFirst(c, t) ==
    IF c.pendingPingresp # 0 THEN c ELSE [c EXCEPT !.pendingPingresp = t]

PingSent(c, t) == [c EXCEPT !.pendingPingresp = t]

\* A callback's result: the session record it leaves and the error it returns.
\* A faulty OnConnack that does not look at the return code; C5 fails with it.
OnConnackAcceptsAnyCode(c, vc, connTime) ==
    LET c1 == [c EXCEPT !.lastRx = connTime]
    IN  IF c1.closeErr = Nil
        THEN [cs |-> c1, err |-> Err("connack received while connected")]
        ELSE [cs |-> onConnect(c1, connTime), err |-> Nil]

\* A faulty OnConnack that accepts a CONNACK while connected; C9 fails with it.
OnConnackWhileConnected(c, vc, connTime) ==
    LET c1 == [c EXCEPT !.lastRx = connTime]
    IN  IF vc.ReturnCode # 0
        THEN [cs |-> c1, err |-> ReturnCodeErr(vc.ReturnCode)]
        ELSE [cs |-> onConnect(c1, connTime), err |-> Nil]

OnConnack(c, vc, connTime) ==
    LET c1 == [c EXCEPT !.lastRx = connTime]
    IN  IF c1.closeErr = Nil
        THEN [cs |-> c1, err |-> Err("connack received while connected")]
        ELSE IF vc.ReturnCode # 0
        THEN [cs |-> c1, err |-> ReturnCodeErr(vc.ReturnCode)]
        ELSE [cs |-> onConnect(c1, connTime), err |-> Nil]

\* The loop of OnSuback over vs.ReturnCodes, from index i on.
RECURSIVE subackCodes(_, _, _)
subackCodes(c, codes, i) ==
    IF i > Len(codes)
    THEN [cs |-> [c EXCEPT !.pendingSubs.TopicFilters = <<>>], err |-> Nil]
    ELSE IF codes[i] = QoSSubfail
    THEN subackCodes(c, codes, i + 1)
    ELSE IF codes[i] # c.pendingSubs.TopicFilters[i].QoS
    THEN [cs |-> c, err |-> Err("QoS does not match requested QoS for topic")]
    ELSE subackCodes([c EXCEPT !.activeSubs =
                          Append(@, c.pendingSubs.TopicFilters[i].TopicFilter)],
                     codes, i + 1)

\* A faulty OnSuback that does not clear the pending subscribe; C10 fails
\* with it.
OnSubackKeepsPending(c, vs, rxTime) ==
    LET c1 == [c EXCEPT !.lastRx = rxTime]
        done == subackCodes(c1, vs.ReturnCodes, 1)
    IN  IF Len(vs.ReturnCodes) # Len(c1.pendingSubs.TopicFilters)
        THEN [cs |-> c1,
              err |-> Err("got mismatched number of return codes compared to pending client subscriptions")]
        ELSE IF done.err # Nil THEN done
        ELSE [cs |-> [done.cs EXCEPT !.pendingSubs = c1.pendingSubs], err |-> Nil]

OnSuback(c, vs, rxTime) ==
    LET c1 == [c EXCEPT !.lastRx = rxTime]
    IN  IF Len(vs.ReturnCodes) # Len(c1.pendingSubs.TopicFilters)
        THEN [cs |-> c1,
              err |-> Err("got mismatched number of return codes compared to pending client subscriptions")]
        ELSE subackCodes(c1, vs.ReturnCodes, 1)

OnOther(c, tp, rxTime) ==
    LET c1 == [c EXCEPT !.lastRx = rxTime]
    IN  IF tp = PacketDisconnect
        THEN [cs |-> onDisconnect(c1, errDisconnected), err |-> errDisconnected]
        ELSE IF tp = PacketPingreq
        THEN [cs |-> [c1 EXCEPT !.pendingPingreq = rxTime], err |-> Nil]
        ELSE IF tp = PacketPingresp
        THEN [cs |-> [c1 EXCEPT !.pendingPingresp = 0], err |-> Nil]
        ELSE [cs |-> c1, err |-> Nil]

OnRxError(c, err) == onDisconnect(c, err)

OnTxError(c, err) == onDisconnect(c, err)

OnSuccessfulTx(c, t) == [c EXCEPT !.lastTx = t]

(***************************************************************************)
(* Rx.ReadNextPacket with the client's callbacks installed.                *)
(***************************************************************************)
\* A faulty rxErrHandler that does not call the error hook; C11 fails with it.
rxErrHandlerSkipsHook(c, err) == c

rxErrHandler(c, err) == OnRxError(c, err)

\* What the user's OnPub does with the payload reader: "drain" reads it to
\* io.EOF (as Rx.exhaustReader does when no OnPub is set), "readNone" returns
\* nil without reading, "error" returns an error.
PubBehaviours == {"drain", "readNone", "error"}

\* The error left after the OnPub branch: lr is an io.LimitedReader of
\* payloadLen bytes over the transport.
publishPayload(r, payloadLen, pub) ==
    LET underread == Err("expected OnPub to completely read payload")
    IN  IF pub = "error" THEN Err("OnPub: user error")
        ELSE IF pub = "readNone" THEN (IF payloadLen # 0 THEN underread ELSE Nil)
        ELSE IF payloadLen <= 0 THEN (IF payloadLen # 0 THEN underread ELSE Nil)
        ELSE IF Len(r.buf) >= payloadLen THEN Nil
        ELSE IF r.tail = ErrEOF THEN underread
        ELSE r.tail

\* The switch on the packet type: the bytes read after the header, the error,
\* the session record the callback leaves, and the packet (type, variables)
\* handed to a callback of the client, pkt = 0 when none ran.
rxDispatch(c, hdr, r, now, pub) ==
    LET tp == Type(hdr)
        rl == hdr.RemainingLength
        none(n, err) == [n |-> n, err |-> err, cs |-> c, pkt |-> 0, vars |-> <<>>]
        called(n, cb, vars) ==
            [n |-> n, err |-> cb.err, cs |-> cb.cs, pkt |-> tp, vars |-> vars]
        publish(d) ==
            IF d.err # Nil THEN none(d.n, d.err)
            ELSE [n |-> d.n, err |-> publishPayload(d.r, rl - d.n, pub),
                  cs |-> c, pkt |-> tp, vars |-> <<>>]
        connack(d) ==
            IF d.err # Nil THEN none(d.n, d.err)
            ELSE called(d.n, OnConnack(c, d.vc, now), <<d.vc.ReturnCode>>)
        suback(d) ==
            IF d.err # Nil THEN none(d.n, d.err)
            ELSE called(d.n, OnSuback(c, d.vs, now), d.vs.ReturnCodes)
        identified(d) ==
            IF d.err # Nil THEN none(d.n, d.err)
            ELSE called(d.n, OnOther(c, tp, now), <<>>)
        ignored(d) == none(d.n, d.err)
    IN  CASE tp = PacketPublish ->
              publish(DecodePublish(r, QoS(Flags(hdr)), UserBufferLen))
          [] tp = PacketConnack ->
              IF rl # 2 THEN none(0, ErrBadRemainingLen)
              ELSE connack(DecodeConnack(r))
          [] tp = PacketConnect ->
              ignored(DecodeConnect(r, UserBufferLen))
          [] tp = PacketSuback ->
              IF rl < 2 THEN none(0, ErrBadRemainingLen)
              ELSE suback(DecodeSuback(r, rl))
          [] tp = PacketSubscribe ->
              ignored(DecodeSubscribe(r, rl, UserBufferLen))
          [] tp = PacketUnsubscribe ->
              ignored(DecodeUnsubscribe(r, rl, UserBufferLen))
          [] tp \in {PacketPuback, PacketPubrec, PacketPubrel, PacketPubcomp, PacketUnsuback} ->
              IF rl # 2 THEN none(0, ErrBadRemainingLen)
              ELSE identified(decodeUint16(r))
          [] tp \in {PacketDisconnect, PacketPingreq, PacketPingresp} ->
              IF rl # 0 THEN none(0, ErrBadRemainingLen)
              ELSE called(0, OnOther(c, tp, now), <<>>)

\* ReadNextPacket: n and err are what it returns, cs the session record it
\* leaves, hdr is rx.LastReceivedHeader; panic tells that it did not return.
ReadNextPacket(c, rxTrp, r, now, pub) ==
    LET dispatched(h, b) ==
            IF b.err = ErrPanic
            THEN [n |-> h.n + b.n, err |-> b.err, cs |-> c, pkt |-> 0,
                  vars |-> <<>>, hdr |-> h.hdr, panic |-> TRUE]
            ELSE [n |-> h.n + b.n, err |-> b.err,
                  cs |-> IF b.err # Nil THEN rxErrHandler(b.cs, b.err) ELSE b.cs,
                  pkt |-> b.pkt, vars |-> b.vars, hdr |-> h.hdr, panic |-> FALSE]
        withHeader(h) ==
            IF h.err # Nil
            THEN [n |-> h.n, err |-> h.err,
                  cs |-> IF h.n > 0 THEN rxErrHandler(c, h.err) ELSE c,
                  pkt |-> 0, vars |-> <<>>, hdr |-> ZeroHeader, panic |-> FALSE]
            ELSE dispatched(h, rxDispatch(c, h.hdr, h.r, now, pub))
    IN  IF rxTrp = ""
        THEN [n |-> 0, err |-> Err("nil transport"), cs |-> c, pkt |-> 0,
              vars |-> <<>>, hdr |-> ZeroHeader, panic |-> FALSE]
        ELSE withHeader(DecodeHeader(r))

(***************************************************************************)
(* Tx. A write to the transport ends in one of these ways: "ok", the       *)
(* packet is written; "err0", the first Write fails with no byte written;  *)
(* "errPartial", the header's Write fails after some byte; "errBody", the  *)
(* header is written and a later Write fails.                              *)
(***************************************************************************)
WriteErrs == {ErrEOF, Err("write: broken pipe")}

TxOutcomes ==
    {[kind |-> "ok", err |-> Nil]}
    \cup [kind : {"err0", "errPartial", "errBody"}, err : WriteErrs]

\* WriteSimple writes the two header bytes in one Write.
SimpleOutcomes == {o \in TxOutcomes : o.kind # "errBody"}

\* wrote: the type of the packet written in full, 0 when no byte was
\* written, -1 when the packet was written in part.
prepClose(c, err) == OnTxError(c, err)

\* The shape shared by WriteConnect, WriteSubscribe and WritePublishPayload.
writePacket(c, txTrp, packetType, o, now) ==
    IF txTrp = ""
    THEN [cs |-> c, err |-> Err("nil transport"), wrote |-> 0]
    ELSE IF o.kind = "err0"
    THEN [cs |-> c, err |-> o.err, wrote |-> 0]
    ELSE IF o.kind \in {"errPartial", "errBody"}
    THEN [cs |-> prepClose(c, o.err), err |-> o.err, wrote |-> -1]
    ELSE [cs |-> OnSuccessfulTx(c, now), err |-> Nil, wrote |-> packetType]

WriteConnect(c, txTrp, o, now) == writePacket(c, txTrp, PacketConnect, o, now)

WriteSubscribe(c, txTrp, o, now) == writePacket(c, txTrp, PacketSubscribe, o, now)

WritePublishPayload(c, txTrp, o, now) == writePacket(c, txTrp, PacketPublish, o, now)

\* WriteSimple: the success hook also runs when Encode fails with n = 0.
WriteSimple(c, txTrp, packetType, o, now) ==
    IF txTrp = ""
    THEN [cs |-> c, err |-> Err("nil transport"), wrote |-> 0]
    ELSE IF packetType \notin {PacketDisconnect, PacketPingreq, PacketPingresp}
    THEN [cs |-> c, err |-> Err("expected packet type from PINGREQ|PINGRESP|DISCONNECT"),
          wrote |-> 0]
    ELSE IF o.kind = "errPartial"
    THEN [cs |-> prepClose(c, o.err), err |-> o.err, wrote |-> -1]
    ELSE [cs |-> OnSuccessfulTx(c, now), err |-> o.err,
          wrote |-> IF o.kind = "ok" THEN packetType ELSE 0]

(***************************************************************************)
(* Rx used on its own (NewRxTx), where every callback and hook is          *)
(* optional. rx is its configuration: rxTrp the transport, "" for nil;     *)
(* OnRxError whether the error hook is set; cb "nil" when no packet        *)
(* callback other than OnPub is set, "ok" when those callbacks return nil, *)
(* "error" when they return an error; OnPub "nil" when it is not set, else *)
(* what it does with the payload reader.                                   *)
(***************************************************************************)
errUser == Err("callback: user error")

errUnderread == Err("expected OnPub to completely read payload")

PubReaders == {"nil", "drain", "readOne", "readNone", "error"}

\* The size of the largest input read by an Rx used on its own.
MaxSize == 15

\* UserBuffer is the length of the DecoderLowmem's buffer, which holds MaxSize
\* bytes at least.
RxConfigs ==
    [rxTrp : {"", "conn1"}, OnRxError : BOOLEAN, cb : {"nil", "ok", "error"},
     OnPub : PubReaders, UserBuffer : {MaxSize}]

\* A faulty rxErrHandler that closes the transport whether or not the hook is
\* set; C23 fails with it.
Rx_rxErrHandlerAlwaysCloses(rx) ==
    IF rx.OnRxError THEN [hooks |-> 1, closed |-> TRUE]
    ELSE [hooks |-> 0, closed |-> TRUE]

\* rxErrHandler: hooks counts the calls of OnRxError, closed tells that
\* CloseRx was called.
Rx_rxErrHandler(rx) ==
    IF rx.OnRxError THEN [hooks |-> 1, closed |-> FALSE]
    ELSE [hooks |-> 0, closed |-> TRUE]

\* A faulty Rx_callback that calls the callback without testing it for nil,
\* and panics on a nil one; C36 fails with it.
Rx_callbackUnguarded(rx, name, arg) ==
    IF rx.cb = "nil" THEN [calls |-> <<>>, err |-> ErrPanic]
    ELSE [calls |-> <<[cb |-> name, arg |-> arg]>>,
          err |-> IF rx.cb = "error" THEN errUser ELSE Nil]

\* A packet callback other than OnPub, if set, is called with arg.
Rx_callback(rx, name, arg) ==
    IF rx.cb = "nil" THEN [calls |-> <<>>, err |-> Nil]
    ELSE [calls |-> <<[cb |-> name, arg |-> arg]>>,
          err |-> IF rx.cb = "error" THEN errUser ELSE Nil]

\* Reading lr := io.LimitedReader{R: r, N: payloadLen} to its end, as
\* exhaustReader does and as an OnPub that drains the payload does: lr gives
\* io.EOF once N bytes are read, and passes on the transport's error when the
\* transport ends first; io.EOF is returned as nil.
exhaustReader(r, payloadLen) ==
    LET avail == IF payloadLen > 0 THEN payloadLen ELSE 0
        got == Min(avail, Len(r.buf))
    IN  [err |-> IF got = avail \/ r.tail = ErrEOF THEN Nil ELSE r.tail,
         N |-> payloadLen - got,
         r |-> [r EXCEPT !.buf = SubSeq(@, got + 1, Len(@))]]

\* What is left of lr after OnPub, or exhaustReader when OnPub is not set.
Rx_payload(rx, r, payloadLen) ==
    IF rx.OnPub \in {"nil", "drain"} THEN exhaustReader(r, payloadLen)
    ELSE IF rx.OnPub = "readOne" /\ payloadLen > 0 /\ Len(r.buf) > 0
    THEN [err |-> Nil, N |-> payloadLen - 1, r |-> [r EXCEPT !.buf = Tail(@)]]
    ELSE [err |-> IF rx.OnPub = "error" THEN errUser ELSE Nil, N |-> payloadLen, r |-> r]

\* A faulty test that takes any remaining length for DISCONNECT, PINGREQ and
\* PINGRESP; C27 fails with it.
Rx_badRemainingLenLax(tp, rl) ==
    IF tp = PacketConnack THEN rl # 2
    ELSE IF tp = PacketSuback THEN rl < 2
    ELSE IF tp \in {PacketPuback, PacketPubrec, PacketPubrel, PacketPubcomp, PacketUnsuback}
    THEN rl # 2
    ELSE FALSE

\* The tests of hdr.RemainingLength at the head of the cases of the switch.
Rx_badRemainingLen(tp, rl) ==
    IF tp = PacketConnack THEN rl # 2
    ELSE IF tp = PacketSuback THEN rl < 2
    ELSE IF tp \in {PacketPuback, PacketPubrec, PacketPubrel, PacketPubcomp, PacketUnsuback}
    THEN rl # 2
    ELSE IF tp \in {PacketDisconnect, PacketPingreq, PacketPingresp}
    THEN rl # 0
    ELSE FALSE

\* A faulty test that lets an unread payload pass; C25 fails with it.
Rx_underreadIgnored(p) == FALSE

\* The test after OnPub or exhaustReader: lr.N != 0 && err == nil.
Rx_underread(p) == p.N # 0 /\ p.err = Nil

\* The switch of ReadNextPacket on the packet type: ngot is what is added to
\* n, calls the callbacks called with their arguments, r the transport
\* afterwards.
Rx_dispatch(rx, hdr, r) ==
    LET tp == Type(hdr)
        rl == hdr.RemainingLength
        done(ngot, err, calls, rd) ==
            [ngot |-> ngot, err |-> err, calls |-> calls, r |-> rd]
        called(d, cb) == done(d.n, cb.err, cb.calls, d.r)
        decoded(d, name, arg) ==
            IF d.err # Nil THEN done(d.n, d.err, <<>>, d.r)
            ELSE called(d, Rx_callback(rx, name, arg))
        paid(d, p) ==
            done(d.n, IF Rx_underread(p) THEN errUnderread ELSE p.err,
                 IF rx.OnPub = "nil" THEN <<>>
                 ELSE <<[cb |-> "OnPub", arg |-> d.vp]>>, p.r)
        publish(d) ==
            IF d.err # Nil THEN done(d.n, d.err, <<>>, d.r)
            ELSE paid(d, Rx_payload(rx, d.r, rl - d.n))
        connack(d) == decoded(d, "OnConnack", d.vc)
        suback(d) == decoded(d, "OnSuback", d.vs)
        subscribe(d) == decoded(d, "OnSub", d.filters)
        unsubscribe(d) == decoded(d, "OnUnsub", d.topics)
        connect(d) == decoded(d, "OnConnect", <<>>)
        identified(d) == decoded(d, "OnOther", d.value)
        simple(cb) == done(0, cb.err, cb.calls, r)
    IN  IF Rx_badRemainingLen(tp, rl) THEN done(0, ErrBadRemainingLen, <<>>, r)
        ELSE CASE tp = PacketPublish ->
                   publish(DecodePublish(r, QoS(Flags(hdr)), rx.UserBuffer))
               [] tp = PacketConnack -> connack(DecodeConnack(r))
               [] tp = PacketConnect -> connect(DecodeConnect(r, rx.UserBuffer))
               [] tp = PacketSuback -> suback(DecodeSuback(r, rl))
               [] tp = PacketSubscribe -> subscribe(DecodeSubscribe(r, rl, rx.UserBuffer))
               [] tp = PacketUnsubscribe ->
                   unsubscribe(DecodeUnsubscribe(r, rl, rx.UserBuffer))
               [] tp \in {PacketPuback, PacketPubrec, PacketPubrel, PacketPubcomp,
                          PacketUnsuback} ->
                   identified(decodeUint16(r))
               [] tp \in {PacketDisconnect, PacketPingreq, PacketPingresp} ->
                   simple(Rx_callback(rx, "OnOther", 0))

\* Rx.ReadNextPacket: n and err are what it returns, hdr is
\* rx.LastReceivedHeader, r the transport afterwards; panic tells that it did
\* not return.
Rx_ReadNextPacket(rx, r) ==
    LET result(n, err, hdr, calls, handled, rd, panic) ==
            [n |-> n, err |-> err, hdr |-> hdr, calls |-> calls,
             hooks |-> handled.hooks, closed |-> handled.closed, r |-> rd,
             panic |-> panic]
        unhandled == [hooks |-> 0, closed |-> FALSE]
        dispatched(h, b) ==
            IF b.err = ErrPanic
            THEN result(h.n + b.ngot, b.err, h.hdr, b.calls, unhandled, b.r, TRUE)
            ELSE result(h.n + b.ngot, b.err, h.hdr, b.calls,
                        IF b.err # Nil THEN Rx_rxErrHandler(rx) ELSE unhandled,
                        b.r, FALSE)
        withHeader(h) ==
            IF h.err # Nil
            THEN result(h.n, h.err, ZeroHeader, <<>>,
                        IF h.n > 0 THEN Rx_rxErrHandler(rx) ELSE unhandled, h.r, FALSE)
            ELSE dispatched(h, Rx_dispatch(rx, h.hdr, h.r))
    IN  IF rx.rxTrp = ""
        THEN result(0, Err("nil transport"), ZeroHeader, <<>>, unhandled, r, FALSE)
        ELSE withHeader(DecodeHeader(r))

(***************************************************************************)
(* Header.Encode and Tx used on their own.                                 *)
(***************************************************************************)
\* encodeRemainingLength after its fast path: the loop over remlen.
RECURSIVE encodeLoop(_)
encodeLoop(remlen) ==
    IF remlen = 0 THEN <<>>
    ELSE <<(remlen % 128) + (IF remlen \div 128 > 0 THEN 128 ELSE 0)>>
         \o encodeLoop(remlen \div 128)

\* encodeRemainingLength: the bytes written to b.
encodeRemainingLength(remlen) ==
    IF remlen < 128 THEN <<remlen>> ELSE encodeLoop(remlen)

\* Header.Put: the bytes put in buf.
Put(hdr) == <<hdr.firstByte>> \o encodeRemainingLength(hdr.RemainingLength)

\* Header.Encode into a writer that takes every byte: the bytes written.
\* maxRemainingLengthValue is 0xffff_ff7f = 128 * 33554431 - 1, so
\* hdr.RemainingLength > maxRemainingLengthValue is the test below.
\* Put writes into headerBuf [5]byte: a fifth length byte is b[4] of the
\* 4-byte buf[1:], an index out of range, and Encode panics before it writes.
Encode(hdr) ==
    IF hdr.RemainingLength \div 128 >= 33554431
    THEN [bytes |-> <<>>, n |-> 0,
          err |-> Err("remaining length too large for MQTT v3.1.1 spec")]
    ELSE IF Len(Put(hdr)) > 5
    THEN [bytes |-> <<>>, n |-> 0, err |-> ErrPanic]
    ELSE [bytes |-> Put(hdr), n |-> Len(Put(hdr)), err |-> Nil]

\* Header.Size; rl < maxRemainingLengthValue is (rl + 1) \div 128 < 33554431.
Size(hd) ==
    LET rl == hd.RemainingLength
    IN  IF rl <= 127 THEN 2
        ELSE IF rl <= 65407 THEN 3
        ELSE IF rl <= 16777087 THEN 4
        ELSE IF (rl + 1) \div 128 < 33554431 THEN 5
        ELSE 0

\* VariablesConnect.Size, with mqttStringSize and WillFlag.
VariablesConnectSize(vs) ==
    LET mqttStringSize(b) == IF Len(b) > 0 THEN Len(b) + 2 ELSE 0
        WillFlag == Len(vs.WillTopic) # 0 /\ Len(vs.WillMessage) # 0
    IN  mqttStringSize(vs.Username)
        + (IF Len(vs.Username) # 0 THEN mqttStringSize(vs.Password) ELSE 0)
        + (IF WillFlag THEN Len(vs.WillTopic) + Len(vs.WillMessage) + 4 ELSE 0)
        + Len(vs.ClientID) + Len(vs.Protocol) + 4
        + 1 + 2 + 1

\* encodeConnect into a writer that takes every byte: n counts the bytes
\* written. The first Write is of the 10 bytes 00 04 'MQTT' 04, flags and
\* keep-alive; encodeMQTTString refuses a string of length 0.
encodeConnect(varConn) ==
    LET errEmpty == Err("cannot encode MQTT string of length 0")
        strings ==
            <<varConn.ClientID>>
            \o (IF Len(varConn.WillTopic) # 0 /\ Len(varConn.WillMessage) # 0
                THEN <<varConn.WillTopic, varConn.WillMessage>> ELSE <<>>)
            \o (IF Len(varConn.Username) # 0
                THEN <<varConn.Username>>
                     \o (IF Len(varConn.Password) # 0 THEN <<varConn.Password>>
                         ELSE <<>>)
                ELSE <<>>)
        encodeStrings[i \in 1..(Len(strings) + 1)] ==
            IF i > Len(strings) THEN [n |-> 0, err |-> Nil]
            ELSE IF Len(strings[i]) = 0 THEN [n |-> 0, err |-> errEmpty]
            ELSE [n |-> 2 + Len(strings[i]) + encodeStrings[i + 1].n,
                  err |-> encodeStrings[i + 1].err]
    IN  [n |-> 10 + encodeStrings[1].n, err |-> encodeStrings[1].err]

\* newHeader
newHeader(pt, pf, rlen) == [firstByte |-> pt * 16 + pf, RemainingLength |-> rlen]

\* tx is the configuration of a Tx: txTrp the transport, "" for nil;
\* OnTxError and OnSuccessfulTx whether the hooks are set.
TxConfigs == [txTrp : {"", "conn1"}, OnTxError : BOOLEAN, OnSuccessfulTx : BOOLEAN]

\* The Write* methods that write a header and then a variable header.
TxPackets ==
    {"WriteConnect", "WriteConnack", "WritePublishPayload", "WriteSubscribe",
     "WriteSuback", "WriteUnsubscribe", "WriteIdentified"}

\* prepClose: errHooks counts the calls of OnTxError, closed tells that the
\* transport was closed.
Tx_prepClose(tx) ==
    IF tx.OnTxError THEN [errHooks |-> 1, closed |-> FALSE]
    ELSE [errHooks |-> 0, closed |-> TRUE]

\* The result of a Write*: okHooks counts the calls of OnSuccessfulTx.
Tx_result(err, okHooks, handled) ==
    [err |-> err, okHooks |-> okHooks, errHooks |-> handled.errHooks,
     closed |-> handled.closed]

Tx_untouched == [errHooks |-> 0, closed |-> FALSE]

\* WriteConnect, WriteConnack, WritePublishPayload, WriteSubscribe,
\* WriteSuback, WriteUnsubscribe and WriteIdentified; argsOK tells whether the
\* arguments pass the tests WriteSuback and WriteIdentified make before they
\* write, o is how the writes to the transport end.
Tx_WritePacket(tx, method, argsOK, o) ==
    IF tx.txTrp = ""
    THEN Tx_result(Err("nil transport"), 0, Tx_untouched)
    ELSE IF method \in {"WriteSuback", "WriteIdentified"} /\ ~argsOK
    THEN Tx_result(Err("invalid argument"), 0, Tx_untouched)
    ELSE IF o.kind = "err0"
    THEN Tx_result(o.err, 0, Tx_untouched)
    ELSE IF o.kind \in {"errPartial", "errBody"}
    THEN Tx_result(o.err, 0, Tx_prepClose(tx))
    ELSE Tx_result(Nil, IF tx.OnSuccessfulTx THEN 1 ELSE 0, Tx_untouched)

\* WriteSimple; argsOK tells whether packetType is DISCONNECT, PINGREQ or
\* PINGRESP. The success hook also runs when Encode fails with n = 0.
Tx_WriteSimple(tx, argsOK, o) ==
    IF tx.txTrp = ""
    THEN Tx_result(Err("nil transport"), 0, Tx_untouched)
    ELSE IF ~argsOK
    THEN Tx_result(Err("expected packet type from PINGREQ|PINGRESP|DISCONNECT"), 0,
                   Tx_untouched)
    ELSE IF o.kind = "errPartial"
    THEN Tx_result(o.err, 0, Tx_prepClose(tx))
    ELSE Tx_result(o.err, IF tx.OnSuccessfulTx THEN 1 ELSE 0, Tx_untouched)

(***************************************************************************)
(* Arguments of the client's methods.                                      *)
(***************************************************************************)
IsValid(qos) == qos <= QoS2

RECURSIVE validateFilters(_, _)
validateFilters(filters, i) ==
    IF i > Len(filters) THEN Nil
    ELSE IF ~IsValid(filters[i].QoS) THEN Err("invalid QoS in VariablesSubscribe")
    ELSE IF Len(filters[i].TopicFilter) = 0
    THEN Err("got empty topic filter in VariablesSubscribe")
    ELSE validateFilters(filters, i + 1)

ValidateSubscribe(vsub) ==
    IF Len(vsub.TopicFilters) = 0 THEN Err("no topic filters in VariablesSubscribe")
    ELSE validateFilters(vsub.TopicFilters, 1)

ValidatePublish(vp) ==
    IF vp.PacketIdentifier = 0 THEN errGotZeroPI
    ELSE IF Len(vp.TopicName) = 0 THEN errEmptyTopic
    ELSE Nil

SubscribeRequest(topic, qos) == [TopicFilter |-> topic, QoS |-> qos]

\* Topic filters "a" and "b" as their bytes.
VSubs ==
    { [PacketIdentifier |-> 1,
       TopicFilters |-> <<SubscribeRequest(<<97>>, 1), SubscribeRequest(<<98>>, 0)>>],
      [PacketIdentifier |-> 1, TopicFilters |-> <<>>],
      [PacketIdentifier |-> 1, TopicFilters |-> <<SubscribeRequest(<<97>>, 3)>>],
      [PacketIdentifier |-> 1, TopicFilters |-> <<SubscribeRequest(<<>>, 0)>>] }

\* PublishPayload's flags and variable header.
PubArgs ==
    { [flags |-> 0, PacketIdentifier |-> 1, TopicName |-> <<116>>],
      [flags |-> 0, PacketIdentifier |-> 0, TopicName |-> <<116>>],
      [flags |-> 0, PacketIdentifier |-> 1, TopicName |-> <<>>],
      [flags |-> 2, PacketIdentifier |-> 1, TopicName |-> <<116>>] }

UserErrs == {Err("user: closing")}

ErrCanceled == Err("context canceled")

(***************************************************************************)
(* What the server and the network can put on the transport before a read  *)
(* returns. A frame is the bytes that arrive; the tail is the error the    *)
(* transport's Read gives once they are consumed.                          *)
(***************************************************************************)
Frames ==
    { <<>>,
      <<32, 130, 0, 0>>,            \* CONNACK, return code 0
      <<32, 2, 0, 0>>,              \* the same with the length byte's bit 7 clear
      <<32, 130, 0, 5>>,            \* CONNACK, return code 5
      <<144, 132, 0, 1, 1, 0>>,     \* SUBACK, codes 1 0
      <<144, 131, 0, 2, 1>>,        \* SUBACK, code 1
      <<144, 132, 0, 1, 128, 0>>,   \* SUBACK, codes 0x80 0
      <<144, 132, 0, 1, 1, 1>>,     \* SUBACK, codes 1 1
      <<144, 132, 0, 2, 1, 0>>,     \* SUBACK with identifier 2, codes 1 0
      <<208, 128>>,                 \* PINGRESP
      <<224, 128>>,                 \* DISCONNECT
      <<48, 133, 0, 1, 116, 104, 105>>,  \* PUBLISH "t" "hi"
      <<208, 129>> }                \* PINGRESP, remaining length 1

RxTails == {ErrEOF, ErrTimeout}

(***************************************************************************)
(* The client: one session record, the Rx and Tx transports, the two       *)
(* locks, and the goroutines that call its methods.                        *)
(***************************************************************************)
Threads == {"g1", "g2"}

\* The connections the user hands to StartConnect: the one already installed
\* or a newly dialled one.
Transports == {"conn1", "conn2"}

NewConn(installed) == CHOOSE c \in Transports : c # installed

Dialled(installed) == {installed, NewConn(installed)} \ {""}

\* StartConnect is called by the user or by Connect. Connect, which blocks in
\* its own read loop, is called by goroutine g1 only.
Callers(t) == IF t = "g1" THEN {"", "Connect"} ELSE {""}

VARIABLES
    cs,         \* Client.cs, the session record
    rxTrp,      \* Client.rx.rxTrp, "" for nil
    txTrp,      \* Client.tx.txTrp, "" for nil
    closed,     \* whether Close has been called on the installed transport
    rxlock,     \* Client.rxlock, the goroutine holding it or ""
    txlock,     \* Client.txlock, the goroutine holding it or ""
    now,        \* time.Now()
    pc,         \* where each goroutine is in the method it runs
    loc,        \* each goroutine's locals
    attempt,    \* history: a CONNECT has been written in full and since then
                \* the session was neither connected nor marked disconnected
    pinged,     \* history: a PINGREQ has been written in full in this session
                \* and no PINGRESP has been processed since
    ev,         \* history: what the last step of a goroutine did
    rxtx        \* an Rx, a Tx and a Header used without the client: the
                \* bytes on the Rx's transport, whether the transports are
                \* closed, and the last call with its result

vars ==
    <<cs, rxTrp, txTrp, closed, rxlock, txlock, now, pc, loc, attempt, pinged, ev, rxtx>>

\* The variables of the client.
clientVars ==
    <<cs, rxTrp, txTrp, closed, rxlock, txlock, now, pc, loc, attempt, pinged, ev>>

IdleLoc == [caller |-> "", err |-> Nil, ctx |-> Nil, wrote |-> 0,
            session |-> 0, pingTime |-> 0, ioerr |-> FALSE, seen |-> 0,
            vsub |-> ZeroSubscribe]

\* top: the methods that returned in this step; err: their result;
\* valid: the arguments passed validation; wrote: the packet type the call
\* wrote in full (0 none, -1 in part); pkt, vars: the packet a callback of the
\* session processed in this step, 0 if none; id: the packet identifier of
\* that packet when it is a SUBACK; connected, attempt, pending:
\* IsConnected, attempt and the number of pending filters when that packet
\* arrived; call: the locals of Connect, Subscribe or Ping when it returns
\* from its wait.
NoEv == [top |-> {}, err |-> Nil, valid |-> TRUE, wrote |-> 0, pkt |-> 0, vars |-> <<>>,
         id |-> 0,
         connected |-> FALSE, attempt |-> FALSE, pending |-> 0, call |-> IdleLoc]

NewClient ==
    /\ cs = NewClientState
    /\ rxTrp = ""
    /\ txTrp = ""
    /\ closed = FALSE
    /\ rxlock = ""
    /\ txlock = ""
    /\ now = 1
    /\ pc = [t \in Threads |-> "idle"]
    /\ loc = [t \in Threads |-> IdleLoc]
    /\ attempt = FALSE
    /\ pinged = FALSE
    /\ ev = NoEv

\* No call made on the Rx, the Tx or a Header on their own.
NoCall == [op |-> ""]

\* use: which of the three the program uses, "" when it uses the client.
NewRxTx(use, bytes, tailErr) ==
    [use |-> use, rd |-> Reader(bytes, tailErr), rxClosed |-> FALSE,
     txClosed |-> FALSE, halted |-> FALSE, last |-> NoCall]

Init == NewClient /\ rxtx = NewRxTx("", <<>>, ErrEOF)

\* The outcomes of a write: on a closed transport Write fails at once.
WriteOutcomes(isClosed, outcomes) ==
    IF isClosed THEN {[kind |-> "err0", err |-> ErrClosed]} ELSE outcomes

\* The methods that wait for a response by calling HandleNext in a loop.
Blocking == {"Connect", "Subscribe", "Ping"}

\* Where the goroutine goes on when a method called by caller returns err:
\* "idle" when it returns to the user. Connect returns the error of any call;
\* Subscribe and Ping return the error of StartSubscribe and StartPing and
\* drop that of HandleNext.
Resume(caller, method, err) ==
    IF caller = "" THEN "idle"
    ELSE IF method = "HandleNext"
    THEN (IF caller = "Connect" THEN (IF err = Nil THEN "c_loop" ELSE "idle")
          ELSE IF caller = "Subscribe" THEN "sub_loop"
          ELSE "ping_loop")
    ELSE IF err # Nil THEN "idle"
    ELSE IF caller = "Connect" THEN "c_loop"
    ELSE IF caller = "Subscribe" THEN "sub_loop"
    ELSE "ping_time"

\* A method returns, to the user or into the blocking method that called it.
Return(t, method, err, valid, wrote) ==
    LET to == Resume(loc[t].caller, method, err)
    IN  /\ pc' = [pc EXCEPT ![t] = to]
        /\ loc' = [loc EXCEPT ![t] =
                      IF to = "idle" THEN IdleLoc
                      ELSE [@ EXCEPT !.err = Nil, !.wrote = 0,
                                     !.ioerr = @ \/ (method = "HandleNext" /\ err # Nil)]]
        /\ ev' = [NoEv EXCEPT !.top = IF to = "idle" /\ loc[t].caller # ""
                                      THEN {method, loc[t].caller} ELSE {method},
                              !.err = err, !.valid = valid, !.wrote = wrote]

\* A blocking method returns from its wait.
ReturnFromWait(t, err) ==
    /\ pc' = [pc EXCEPT ![t] = "idle"]
    /\ loc' = [loc EXCEPT ![t] = IdleLoc]
    /\ ev' = [NoEv EXCEPT !.top = {loc[t].caller}, !.err = err, !.call = loc[t]]

\* clientState.mu is held across steps only by IsConnected, between its two
\* reads of the session record.
MuHeld == \E t \in Threads : pc[t] = "ic_mu"

\* pinged after a step that takes the session record from c to c2, writes the
\* packet wrote and processes the packet pkt.
Unanswered(c, c2, wrote, pkt) ==
    IF ~IsConnected(c) \/ ~IsConnected(c2) THEN FALSE
    ELSE IF pkt = PacketPingresp THEN FALSE
    ELSE IF wrote = PacketPingreq THEN TRUE
    ELSE pinged

(***************************************************************************)
(* The conditions the client's methods branch on.                          *)
(***************************************************************************)
\* readNextWrapped: the client is disconnected and expects no packet back.
readNextRefused(c) == ~IsConnected(c) /\ c.lastTx = 0

\* A faulty HandleNext that relies on the Rx error hook alone; C4 fails with it.
handleNextTrustsHook(c, err) == FALSE

\* HandleNext: the read failed and the client is still connected.
handleNextDisconnects(c, err) == err # Nil /\ IsConnected(c)

\* A faulty loop condition, the negation of IsConnected dropped; C3 fails
\* with it.
connectWaitsWhileConnected(c, ctxErr) == IsConnected(c) /\ ctxErr = Nil

\* Connect's loop condition; ctxErr is ctx.Err().
connectWaits(c, ctxErr) == ~IsConnected(c) /\ ctxErr = Nil

\* A faulty result that drops the context's error; C15 fails with it.
connectResultDropsContext(c, ctxErr) == Nil

\* Connect's result after its loop.
connectResult(c, ctxErr) == IF IsConnected(c) THEN Nil ELSE ctxErr

\* Subscribe's loop condition.
subscribeWaits(c, ctxErr) == Len(c.pendingSubs.TopicFilters) # 0 /\ ctxErr = Nil

\* Ping's loop condition; pingTime is LastPingTime() after StartPing.
pingWaits(c, pingTime, ctxErr) == pingTime = c.pendingPingresp /\ ctxErr = Nil

(***************************************************************************)
(* HandleNext                                                              *)
(***************************************************************************)
\* A faulty readNextWrapped that does not wait for rxlock; C18 fails with it.
readNextWrappedUnlocked(t) ==
    /\ pc[t] \in {"idle", "c_hn"}
    /\ UNCHANGED rxtx
    /\ ~MuHeld
    /\ IF readNextRefused(cs)
       THEN /\ pc' = [pc EXCEPT ![t] = "hn_post"]
            /\ loc' = [loc EXCEPT ![t].err = errDisconnected]
            /\ UNCHANGED rxlock
       ELSE /\ pc' = [pc EXCEPT ![t] = "hn_read"]
            /\ rxlock' = t
            /\ UNCHANGED loc
    /\ ev' = NoEv
    /\ UNCHANGED <<cs, rxTrp, txTrp, closed, txlock, now, attempt, pinged>>

\* readNextWrapped up to the call of ReadNextPacket.
readNextWrapped(t) ==
    /\ pc[t] \in {"idle", "c_hn"}
    /\ UNCHANGED rxtx
    /\ rxlock = ""
    /\ ~MuHeld
    /\ IF readNextRefused(cs)
       THEN /\ pc' = [pc EXCEPT ![t] = "hn_post"]
            /\ loc' = [loc EXCEPT ![t].err = errDisconnected]
            /\ UNCHANGED rxlock
       ELSE /\ pc' = [pc EXCEPT ![t] = "hn_read"]
            /\ rxlock' = t
            /\ UNCHANGED loc
    /\ ev' = NoEv
    /\ UNCHANGED <<cs, rxTrp, txTrp, closed, txlock, now, attempt, pinged>>

\* Rx.ReadNextPacket returns and readNextWrapped unlocks. The callbacks of
\* the session lock mu; the error hook does not.
rxReadNextPacket(t) ==
    /\ pc[t] = "hn_read"
    /\ UNCHANGED rxtx
    /\ \E frame \in Frames, tail \in RxTails, pub \in PubBehaviours :
          \E res \in {ReadNextPacket(cs, rxTrp,
                                      IF closed THEN Reader(<<>>, ErrClosed)
                                      ELSE Reader(frame, tail), now, pub)} :
          LET hooked == res.err # Nil /\ res.n > 0 /\ ~res.panic
          IN  /\ MuHeld => res.pkt \in {0, PacketPublish}
              /\ cs' = res.cs
              /\ pc' = IF res.panic THEN [u \in Threads |-> "panic"]
                        ELSE [pc EXCEPT ![t] = "hn_post"]
              /\ loc' = [loc EXCEPT ![t].err = res.err]
              /\ attempt' = (attempt /\ ~hooked /\ ~IsConnected(res.cs))
              /\ pinged' = Unanswered(cs, res.cs, 0, res.pkt)
              /\ ev' = [NoEv EXCEPT !.pkt = res.pkt, !.vars = res.vars,
                                    !.id = IF res.pkt = PacketSuback
                                           THEN frame[3] * 256 + frame[4] ELSE 0,
                                    !.connected = res.pkt # 0 /\ IsConnected(cs),
                                    !.attempt = res.pkt # 0 /\ attempt,
                                    !.pending = IF res.pkt # 0
                                                THEN Len(cs.pendingSubs.TopicFilters)
                                                ELSE 0]
    /\ rxlock' = ""
    /\ UNCHANGED <<rxTrp, txTrp, closed, txlock, now>>

\* HandleNext after readNextWrapped returned.
HandleNext(t) ==
    /\ pc[t] = "hn_post"
    /\ UNCHANGED rxtx
    /\ ~MuHeld
    /\ IF handleNextDisconnects(cs, loc[t].err)
       THEN /\ cs' = onDisconnect(cs, loc[t].err)
            /\ pinged' = FALSE
            /\ pc' = [pc EXCEPT ![t] = "hn_tx"]
            /\ ev' = NoEv
            /\ UNCHANGED loc
       ELSE /\ Return(t, "HandleNext", loc[t].err, TRUE, 0)
            /\ UNCHANGED <<cs, pinged>>
    /\ UNCHANGED <<rxTrp, txTrp, closed, rxlock, txlock, now, attempt>>

\* HandleNext takes txlock and calls WriteSimple(PacketDisconnect).
HandleNextDisconnect(t) ==
    /\ pc[t] = "hn_tx"
    /\ UNCHANGED rxtx
    /\ txlock = ""
    /\ txlock' = t
    /\ pc' = [pc EXCEPT ![t] = "hn_w"]
    /\ ev' = NoEv
    /\ UNCHANGED <<cs, rxTrp, txTrp, closed, rxlock, now, loc, attempt, pinged>>

(***************************************************************************)
(* Tx: a Write* call returns to the method that made it. The success hook  *)
(* locks mu; the error hook does not.                                      *)
(***************************************************************************)
\* WriteSimple returns to HandleNext, Disconnect or StartPing.
txWriteSimple(t) ==
    /\ pc[t] \in {"hn_w", "d_w", "sp_w"}
    /\ UNCHANGED rxtx
    /\ \E o \in WriteOutcomes(closed, SimpleOutcomes) :
          LET packetType == IF pc[t] = "sp_w" THEN PacketPingreq ELSE PacketDisconnect
              w == WriteSimple(cs, txTrp, packetType, o, now)
          IN  /\ MuHeld => o.kind = "errPartial"
              /\ cs' = w.cs
              /\ pinged' = Unanswered(cs, w.cs, w.wrote, 0)
              /\ IF pc[t] = "hn_w"
                 THEN /\ txlock' = ""
                      /\ Return(t, "HandleNext", loc[t].err, TRUE, w.wrote)
                 ELSE IF pc[t] = "d_w"
                 THEN /\ pc' = [pc EXCEPT ![t] = "d_rx"]
                      /\ loc' = [loc EXCEPT
                                    ![t].err = IF w.err \in {ErrEOF, ErrClosed}
                                               THEN Nil ELSE w.err,
                                    ![t].wrote = w.wrote]
                      /\ ev' = NoEv
                      /\ UNCHANGED txlock
                 ELSE IF w.err = Nil
                 THEN /\ pc' = [pc EXCEPT ![t] = "sp_sent"]
                      /\ loc' = [loc EXCEPT ![t].wrote = w.wrote]
                      /\ ev' = NoEv
                      /\ UNCHANGED txlock
                 ELSE /\ txlock' = ""
                      /\ Return(t, "StartPing", w.err, TRUE, w.wrote)
    /\ UNCHANGED <<rxTrp, txTrp, closed, rxlock, now, attempt>>

\* WriteConnect returns to StartConnect, which unlocks and returns.
txWriteConnect(t) ==
    /\ pc[t] = "sc_w"
    /\ UNCHANGED rxtx
    /\ \E o \in WriteOutcomes(closed, TxOutcomes) :
          LET w == WriteConnect(cs, txTrp, o, now)
          IN  /\ MuHeld => o.kind # "ok"
              /\ cs' = w.cs
              /\ attempt' = (w.wrote = PacketConnect \/ (w.wrote = 0 /\ attempt))
              /\ Return(t, "StartConnect", w.err, TRUE, w.wrote)
    /\ rxlock' = ""
    /\ txlock' = ""
    /\ UNCHANGED <<rxTrp, txTrp, closed, now, pinged>>

\* WriteSubscribe returns to StartSubscribe, which unlocks and returns.
txWriteSubscribe(t) ==
    /\ pc[t] = "ss_w"
    /\ UNCHANGED rxtx
    /\ \E o \in WriteOutcomes(closed, TxOutcomes) :
          LET w == WriteSubscribe(cs, txTrp, o, now)
          IN  /\ MuHeld => o.kind # "ok"
              /\ cs' = w.cs
              /\ pinged' = Unanswered(cs, w.cs, w.wrote, 0)
              /\ Return(t, "StartSubscribe", w.err, TRUE, w.wrote)
    /\ txlock' = ""
    /\ UNCHANGED <<rxTrp, txTrp, closed, rxlock, now, attempt>>

\* WritePublishPayload returns to PublishPayload, which unlocks and returns.
txWritePublishPayload(t) ==
    /\ pc[t] = "pp_w"
    /\ UNCHANGED rxtx
    /\ \E o \in WriteOutcomes(closed, TxOutcomes) :
          LET w == WritePublishPayload(cs, txTrp, o, now)
          IN  /\ MuHeld => o.kind # "ok"
              /\ cs' = w.cs
              /\ pinged' = Unanswered(cs, w.cs, w.wrote, 0)
              /\ Return(t, "PublishPayload", w.err, TRUE, w.wrote)
    /\ txlock' = ""
    /\ UNCHANGED <<rxTrp, txTrp, closed, rxlock, now, attempt>>

(***************************************************************************)
(* StartConnect and Connect                                                *)
(***************************************************************************)
\* StartConnect takes rxlock.
StartConnectLock(t) ==
    /\ pc[t] = "idle"
    /\ UNCHANGED rxtx
    /\ rxlock = ""
    /\ rxlock' = t
    /\ pc' = [pc EXCEPT ![t] = "sc_tx"]
    /\ ev' = NoEv
    /\ UNCHANGED <<cs, rxTrp, txTrp, closed, txlock, now, loc, attempt, pinged>>

\* StartConnect from txlock.Lock() to the call of WriteConnect, or to its
\* return when the client is connected. Its argument rwc is not used before
\* this point.
StartConnect(t) ==
    /\ pc[t] = "sc_tx"
    /\ UNCHANGED rxtx
    /\ txlock = ""
    /\ ~MuHeld
    /\ \E rwc \in Dialled(rxTrp), caller \in Callers(t) :
          /\ txTrp' = rwc
          /\ rxTrp' = rwc
          /\ closed' = (rwc = rxTrp /\ closed)
          /\ IF IsConnected(cs)
             THEN /\ pc' = [pc EXCEPT ![t] = "idle"]
                  /\ loc' = [loc EXCEPT ![t] = IdleLoc]
                  /\ ev' = [NoEv EXCEPT
                               !.top = IF caller = "Connect"
                                       THEN {"StartConnect", "Connect"}
                                       ELSE {"StartConnect"},
                               !.err = Err("already connected; disconnect before connecting")]
                  /\ rxlock' = ""
                  /\ UNCHANGED txlock
             ELSE /\ pc' = [pc EXCEPT ![t] = "sc_w"]
                  /\ loc' = [loc EXCEPT ![t] = [IdleLoc EXCEPT !.caller = caller]]
                  /\ ev' = NoEv
                  /\ txlock' = t
                  /\ UNCHANGED rxlock
    /\ UNCHANGED <<cs, now, attempt, pinged>>

\* Connect's loop condition.
ConnectLoop(t) ==
    /\ pc[t] = "c_loop"
    /\ UNCHANGED rxtx
    /\ loc[t].caller = "Connect"
    /\ ~MuHeld
    /\ pc' = [pc EXCEPT ![t] = IF connectWaits(cs, loc[t].ctx) THEN "c_hn" ELSE "c_ret"]
    /\ ev' = NoEv
    /\ UNCHANGED <<cs, rxTrp, txTrp, closed, rxlock, txlock, now, loc, attempt, pinged>>

\* Connect after its loop.
ConnectReturn(t) ==
    /\ pc[t] = "c_ret"
    /\ UNCHANGED rxtx
    /\ ~MuHeld
    /\ ReturnFromWait(t, connectResult(cs, loc[t].ctx))
    /\ UNCHANGED <<cs, rxTrp, txTrp, closed, rxlock, txlock, now, attempt, pinged>>

\* The context given to Connect, Subscribe or Ping ends.
Cancel(t) ==
    /\ pc[t] # "panic"
    /\ UNCHANGED rxtx
    /\ loc[t].caller \in Blocking
    /\ loc[t].ctx = Nil
    /\ loc' = [loc EXCEPT ![t].ctx = ErrCanceled]
    /\ ev' = NoEv
    /\ UNCHANGED <<cs, rxTrp, txTrp, closed, rxlock, txlock, now, pc, attempt, pinged>>

(***************************************************************************)
(* Disconnect                                                              *)
(***************************************************************************)
\* Disconnect up to the call of WriteSimple.
Disconnect(t) ==
    /\ pc[t] = "idle"
    /\ UNCHANGED rxtx
    /\ txlock = ""
    /\ ~MuHeld
    /\ \E e \in UserErrs :
          IF ~IsConnected(cs)
          THEN /\ Return(t, "Disconnect", errDisconnected, TRUE, 0)
               /\ UNCHANGED <<cs, txlock, pinged>>
          ELSE /\ cs' = onDisconnect(cs, e)
               /\ pinged' = FALSE
               /\ txlock' = t
               /\ pc' = [pc EXCEPT ![t] = "d_w"]
               /\ ev' = NoEv
               /\ UNCHANGED loc
    /\ UNCHANGED <<rxTrp, txTrp, closed, rxlock, now, attempt>>

\* Disconnect from rxlock.Lock(): both transports are closed.
DisconnectClose(t) ==
    /\ pc[t] = "d_rx"
    /\ UNCHANGED rxtx
    /\ rxlock = ""
    /\ closed' = TRUE
    /\ txlock' = ""
    /\ Return(t, "Disconnect", loc[t].err, TRUE, loc[t].wrote)
    /\ UNCHANGED <<cs, rxTrp, txTrp, rxlock, now, attempt, pinged>>

(***************************************************************************)
(* StartSubscribe and Subscribe                                            *)
(***************************************************************************)
\* StartSubscribe up to its tests of the session.
StartSubscribe(t) ==
    /\ pc[t] \in {"idle", "sub_start"}
    /\ UNCHANGED rxtx
    /\ \E vsub \in VSubs :
          /\ Len(cs.activeSubs) + Len(vsub.TopicFilters) <= MaxActiveSubs
          /\ IF ValidateSubscribe(vsub) # Nil
             THEN /\ Return(t, "StartSubscribe", ValidateSubscribe(vsub), FALSE, 0)
                  /\ UNCHANGED <<cs, txlock>>
             ELSE /\ txlock = ""
                  /\ ~MuHeld
                  /\ IF ~IsConnected(cs)
                     THEN /\ Return(t, "StartSubscribe", errDisconnected, TRUE, 0)
                          /\ UNCHANGED <<cs, txlock>>
                     ELSE IF AwaitingSuback(cs)
                     THEN /\ Return(t, "StartSubscribe",
                                    Err("tried to subscribe while still awaiting suback"),
                                    TRUE, 0)
                          /\ UNCHANGED <<cs, txlock>>
                     ELSE /\ txlock' = t
                          /\ pc' = [pc EXCEPT ![t] = "ss_rec"]
                          /\ loc' = [loc EXCEPT ![t].vsub = vsub]
                          /\ ev' = NoEv
                          /\ UNCHANGED cs
    /\ UNCHANGED <<rxTrp, txTrp, closed, rxlock, now, attempt, pinged>>

\* StartSubscribe records the pending subscribe, c.cs.pendingSubs =
\* vsub.Copy(), without locking mu, and calls WriteSubscribe.
StartSubscribeCopy(t) ==
    /\ pc[t] = "ss_rec"
    /\ UNCHANGED rxtx
    /\ cs' = [cs EXCEPT !.pendingSubs = loc[t].vsub]
    /\ pc' = [pc EXCEPT ![t] = "ss_w"]
    /\ loc' = [loc EXCEPT ![t].vsub = ZeroSubscribe]
    /\ ev' = NoEv
    /\ UNCHANGED <<rxTrp, txTrp, closed, rxlock, txlock, now, attempt, pinged>>

\* Subscribe up to its call of StartSubscribe: the session is noted.
Subscribe(t) ==
    /\ pc[t] = "idle"
    /\ UNCHANGED rxtx
    /\ ~MuHeld
    /\ pc' = [pc EXCEPT ![t] = "sub_start"]
    /\ loc' = [loc EXCEPT ![t] = [IdleLoc EXCEPT !.caller = "Subscribe",
                                                 !.session = cs.connectedAt]]
    /\ ev' = NoEv
    /\ UNCHANGED <<cs, rxTrp, txTrp, closed, rxlock, txlock, now, attempt, pinged>>

\* Subscribe's loop: its condition, the test of the session, and its return.
SubscribeLoop(t) ==
    /\ pc[t] = "sub_loop"
    /\ UNCHANGED rxtx
    /\ loc[t].caller = "Subscribe"
    /\ ~MuHeld
    /\ IF subscribeWaits(cs, loc[t].ctx)
       THEN IF cs.connectedAt # loc[t].session
            THEN ReturnFromWait(t, errDisconnected)
            ELSE /\ pc' = [pc EXCEPT ![t] = "c_hn"]
                 /\ ev' = NoEv
                 /\ UNCHANGED loc
       ELSE ReturnFromWait(t, loc[t].ctx)
    /\ UNCHANGED <<cs, rxTrp, txTrp, closed, rxlock, txlock, now, attempt, pinged>>

(***************************************************************************)
(* StartPing and Ping                                                      *)
(***************************************************************************)
\* A faulty StartPing without the connected check; C7 fails with it.
StartPingUnchecked(t) ==
    /\ pc[t] \in {"idle", "ping_start"}
    /\ UNCHANGED rxtx
    /\ txlock = ""
    /\ ~MuHeld
    /\ txlock' = t
    /\ pc' = [pc EXCEPT ![t] = "sp_w"]
    /\ ev' = NoEv
    /\ UNCHANGED <<cs, rxTrp, txTrp, closed, rxlock, now, loc, attempt, pinged>>

\* StartPing up to the call of WriteSimple.
StartPing(t) ==
    /\ pc[t] \in {"idle", "ping_start"}
    /\ UNCHANGED rxtx
    /\ txlock = ""
    /\ ~MuHeld
    /\ IF ~IsConnected(cs)
       THEN /\ Return(t, "StartPing", errDisconnected, TRUE, 0)
            /\ UNCHANGED txlock
       ELSE /\ txlock' = t
            /\ pc' = [pc EXCEPT ![t] = "sp_w"]
            /\ ev' = NoEv
            /\ UNCHANGED loc
    /\ UNCHANGED <<cs, rxTrp, txTrp, closed, rxlock, now, attempt, pinged>>

\* A faulty StartPing that records the ping under rxlock; C19 fails with it.
StartPingSentLocksRx(t) ==
    /\ pc[t] = "sp_sent"
    /\ UNCHANGED rxtx
    /\ ~MuHeld
    /\ rxlock = ""
    /\ cs' = PingSent(cs, now)
    /\ txlock' = ""
    /\ Return(t, "StartPing", Nil, TRUE, loc[t].wrote)
    /\ UNCHANGED <<rxTrp, txTrp, closed, rxlock, now, attempt, pinged>>

\* StartPing after WriteSimple returned nil: PingSent, unlock, return.
StartPingSent(t) ==
    /\ pc[t] = "sp_sent"
    /\ UNCHANGED rxtx
    /\ ~MuHeld
    /\ cs' = PingSent(cs, now)
    /\ txlock' = ""
    /\ Return(t, "StartPing", Nil, TRUE, loc[t].wrote)
    /\ UNCHANGED <<rxTrp, txTrp, closed, rxlock, now, attempt, pinged>>

\* Ping up to its call of StartPing: the session is noted.
Ping(t) ==
    /\ pc[t] = "idle"
    /\ UNCHANGED rxtx
    /\ ~MuHeld
    /\ pc' = [pc EXCEPT ![t] = "ping_start"]
    /\ loc' = [loc EXCEPT ![t] = [IdleLoc EXCEPT !.caller = "Ping",
                                                 !.session = cs.connectedAt]]
    /\ ev' = NoEv
    /\ UNCHANGED <<cs, rxTrp, txTrp, closed, rxlock, txlock, now, attempt, pinged>>

\* Ping after StartPing returned nil: the time of the ping is noted; a zero
\* time means the ping is answered already.
PingTime(t) ==
    /\ pc[t] = "ping_time"
    /\ UNCHANGED rxtx
    /\ ~MuHeld
    /\ IF cs.pendingPingresp = 0
       THEN ReturnFromWait(t, Nil)
       ELSE /\ pc' = [pc EXCEPT ![t] = "ping_loop"]
            /\ loc' = [loc EXCEPT ![t].pingTime = cs.pendingPingresp]
            /\ ev' = NoEv
    /\ UNCHANGED <<cs, rxTrp, txTrp, closed, rxlock, txlock, now, attempt, pinged>>

\* Ping's loop: its condition, the test of the session, and its return.
PingLoop(t) ==
    /\ pc[t] = "ping_loop"
    /\ UNCHANGED rxtx
    /\ loc[t].caller = "Ping"
    /\ ~MuHeld
    /\ IF pingWaits(cs, loc[t].pingTime, loc[t].ctx)
       THEN IF cs.connectedAt # loc[t].session
            THEN ReturnFromWait(t, errDisconnected)
            ELSE /\ pc' = [pc EXCEPT ![t] = "c_hn"]
                 /\ ev' = NoEv
                 /\ UNCHANGED loc
       ELSE ReturnFromWait(t, loc[t].ctx)
    /\ UNCHANGED <<cs, rxTrp, txTrp, closed, rxlock, txlock, now, attempt, pinged>>

(***************************************************************************)
(* PublishPayload                                                          *)
(***************************************************************************)
\* PublishPayload up to the call of WritePublishPayload.
PublishPayload(t) ==
    /\ pc[t] = "idle"
    /\ UNCHANGED rxtx
    /\ \E a \in PubArgs :
          IF ValidatePublish(a) # Nil
          THEN /\ Return(t, "PublishPayload", ValidatePublish(a), FALSE, 0)
               /\ UNCHANGED txlock
          ELSE IF QoS(a.flags) # QoS0
          THEN /\ Return(t, "PublishPayload", Err("only supports QoS0"), FALSE, 0)
               /\ UNCHANGED txlock
          ELSE /\ txlock = ""
               /\ ~MuHeld
               /\ IF ~IsConnected(cs)
                  THEN /\ Return(t, "PublishPayload", errDisconnected, TRUE, 0)
                       /\ UNCHANGED txlock
                  ELSE /\ txlock' = t
                       /\ pc' = [pc EXCEPT ![t] = "pp_w"]
                       /\ ev' = NoEv
                       /\ UNCHANGED loc
    /\ UNCHANGED <<cs, rxTrp, txTrp, closed, rxlock, now, attempt, pinged>>

(***************************************************************************)
(* IsConnected, called while other goroutines use the client. It locks mu  *)
(* and compares connectedAt.IsZero() with closeErr != nil.                 *)
(***************************************************************************)
ErrAssertion == Err("assertion failed: bug in natiu-mqtt clientState implementation")

\* IsConnected locks mu and reads connectedAt.
observeConnectedAt(t) ==
    /\ pc[t] = "idle"
    /\ UNCHANGED rxtx
    /\ ~MuHeld
    /\ pc' = [pc EXCEPT ![t] = "ic_mu"]
    /\ loc' = [loc EXCEPT ![t].seen = cs.connectedAt]
    /\ ev' = NoEv
    /\ UNCHANGED <<cs, rxTrp, txTrp, closed, rxlock, txlock, now, attempt, pinged>>

\* IsConnected reads closeErr, panics if the two disagree, unlocks and
\* returns.
observeCloseErr(t) ==
    /\ pc[t] = "ic_mu"
    /\ UNCHANGED rxtx
    /\ IF (loc[t].seen = 0) # (cs.closeErr # Nil)
       THEN /\ pc' = [u \in Threads |-> "panic"]
            /\ ev' = [NoEv EXCEPT !.top = {"IsConnected"}, !.err = ErrAssertion]
            /\ UNCHANGED loc
       ELSE /\ pc' = [pc EXCEPT ![t] = "idle"]
            /\ loc' = [loc EXCEPT ![t] = IdleLoc]
            /\ ev' = [NoEv EXCEPT !.top = {"IsConnected"}]
    /\ UNCHANGED <<cs, rxTrp, txTrp, closed, rxlock, txlock, now, attempt, pinged>>

\* A panic ends the program, all its goroutines with it.
Halted == \E t \in Threads : pc[t] = "panic"

\* Time passes.
Tick ==
    /\ ~Halted
    /\ UNCHANGED rxtx
    /\ now < MaxTime
    /\ now' = now + 1
    /\ UNCHANGED <<cs, rxTrp, txTrp, closed, rxlock, txlock, pc, loc, attempt, pinged, ev>>

\* The methods of the client, step by step.
Run(t) ==
    \/ readNextWrapped(t)
    \/ rxReadNextPacket(t)
    \/ HandleNext(t)
    \/ HandleNextDisconnect(t)
    \/ txWriteSimple(t)
    \/ txWriteConnect(t)
    \/ txWriteSubscribe(t)
    \/ txWritePublishPayload(t)
    \/ StartConnectLock(t)
    \/ StartConnect(t)
    \/ ConnectLoop(t)
    \/ ConnectReturn(t)
    \/ Cancel(t)
    \/ Disconnect(t)
    \/ DisconnectClose(t)
    \/ StartSubscribe(t)
    \/ StartSubscribeCopy(t)
    \/ Subscribe(t)
    \/ SubscribeLoop(t)
    \/ StartPing(t)
    \/ StartPingSent(t)
    \/ Ping(t)
    \/ PingTime(t)
    \/ PingLoop(t)
    \/ PublishPayload(t)

\* One goroutine calls the client's methods one after the other.
Next == Run("g1") \/ Tick

Spec == Init /\ [][Next]_vars

\* A goroutine that connects and then calls HandleNext again and again.
ReadLoop(t) ==
    \/ StartConnectLock(t)
    \/ StartConnect(t)
    \/ txWriteConnect(t)
    \/ readNextWrapped(t)
    \/ rxReadNextPacket(t)
    \/ HandleNext(t)
    \/ HandleNextDisconnect(t)
    \/ txWriteSimple(t)

\* The calls of a goroutine that leaves the reading to the read loop.
Calls(t) ==
    \/ StartConnectLock(t)
    \/ StartConnect(t)
    \/ txWriteConnect(t)
    \/ Disconnect(t)
    \/ DisconnectClose(t)
    \/ StartSubscribe(t)
    \/ StartSubscribeCopy(t)
    \/ txWriteSubscribe(t)
    \/ StartPing(t)
    \/ txWriteSimple(t)
    \/ StartPingSent(t)
    \/ PublishPayload(t)
    \/ txWritePublishPayload(t)
    \/ observeConnectedAt(t)
    \/ observeCloseErr(t)

\* Two goroutines: g1 runs the read loop while g2 calls the client. The
\* clock stands still: a time is zero or it is not.
NextConc == ReadLoop("g1") \/ Calls("g2")

SpecConc == Init /\ [][NextConc]_vars

\* The calls of a goroutine that shares the client with its like.
Use(t) ==
    \/ StartConnectLock(t)
    \/ StartConnect(t)
    \/ txWriteConnect(t)
    \/ readNextWrapped(t)
    \/ rxReadNextPacket(t)
    \/ HandleNext(t)
    \/ HandleNextDisconnect(t)
    \/ txWriteSimple(t)
    \/ Disconnect(t)
    \/ DisconnectClose(t)
    \/ StartSubscribe(t)
    \/ StartSubscribeCopy(t)
    \/ txWriteSubscribe(t)
    \/ StartPing(t)
    \/ StartPingSent(t)
    \/ PublishPayload(t)
    \/ txWritePublishPayload(t)

\* Two goroutines, each calling any method of the client; the clock stands
\* still.
NextPar == Use("g1") \/ Use("g2")

SpecPar == Init /\ [][NextPar]_vars

(***************************************************************************)
(* Rx, Tx and Header used without the client, as NewRxTx's users and the   *)
(* package's tests use them. The Rx reads from a transport that holds one  *)
(* of Streams; a length byte with bit 7 set ends the remaining length for  *)
(* decodeRemainingLength.                                                  *)
(***************************************************************************)
Streams ==
    { <<>>,
      <<32>>,                            \* one byte of a header
      <<32, 130, 0, 0>>,                 \* CONNACK
      <<32, 2, 0, 0>>,                   \* the same with the length byte's bit 7 clear
      <<32, 131, 0, 0, 0>>,              \* CONNACK, remaining length 3
      <<33, 130, 0, 0>>,                 \* CONNACK, flags 1
      <<64, 130, 0, 7>>,                 \* PUBACK 7
      <<64, 131, 0, 7, 0>>,              \* PUBACK, remaining length 3
      <<64, 130, 0>>,                    \* PUBACK cut short
      <<80, 130, 0, 7>>,                 \* PUBREC 7
      <<98, 130, 0, 9>>,                 \* PUBREL 9, flags 0b0010
      <<96, 130, 0, 9>>,                 \* PUBREL 9, flags 0
      <<97, 130, 0, 9>>,                 \* PUBREL 9, flags 1
      <<98, 129, 0>>,                    \* PUBREL, remaining length 1
      <<112, 130, 0, 7>>,                \* PUBCOMP 7
      <<176, 130, 0, 7>>,                \* UNSUBACK 7
      <<176, 128>>,                      \* UNSUBACK, remaining length 0
      <<208, 128>>,                      \* PINGRESP
      <<192, 128>>,                      \* PINGREQ
      <<224, 128>>,                      \* DISCONNECT
      <<208, 129, 0>>,                   \* PINGRESP, remaining length 1
      <<224, 130, 0, 0>>,                \* DISCONNECT, remaining length 2
      <<144, 131, 0, 2, 1>>,             \* SUBACK 2, code 1
      <<144, 129, 0>>,                   \* SUBACK, remaining length 1
      <<48, 133, 0, 1, 116, 104, 105>>,  \* PUBLISH "t" "hi"
      <<48, 133, 0, 1, 116, 104, 105, 208, 128>>,  \* the same, then PINGRESP
      <<50, 135, 0, 1, 116, 0, 5, 104, 105>>,      \* PUBLISH QoS 1, identifier 5
      <<48, 131, 0, 1, 116>>,            \* PUBLISH with no payload
      <<48, 133, 0, 1, 116, 104>>,       \* PUBLISH, payload cut short
      <<48, 129, 0, 1, 116>>,            \* PUBLISH, remaining length 1
      <<54, 135, 0, 1, 116, 0, 5, 104, 105>>,      \* PUBLISH QoS 3
      <<56, 133, 0, 1, 116, 104, 105>>,  \* PUBLISH DUP with QoS 0
      <<0, 130, 0, 0>>,                  \* packet type 0
      <<240, 130, 0, 0>>,                \* packet type 15
      <<16, 255, 255, 255, 255>>,        \* four length bytes with bit 7 set
      <<16, 127, 127, 127, 127>>,        \* four length bytes with bit 7 clear
      <<130, 134, 0, 3, 0, 1, 116, 1>>,  \* SUBSCRIBE 3, "t" QoS 1
      <<128, 134, 0, 3, 0, 1, 116, 1>>,  \* the same, flags 0
      <<162, 133, 0, 3, 0, 1, 116>>,     \* UNSUBSCRIBE 3, "t"
      <<16, 141, 0, 4, 77, 81, 84, 84, 4, 2, 0, 60, 0, 1, 99>> }  \* CONNECT, client "c"

\* The remaining lengths of the headers that are encoded: the ends of the
\* ranges encoded in 1, 2, 3 and 4 bytes, and the first length above them.
RemainingLengths ==
    {0, 1, 127, 128, 16383, 16384, 2097151, 2097152, 268435455, 268435456}

\* Headers with a valid type and valid flags.
Headers ==
    {newHeader(h[1], h[2], rlen) :
        h \in {<<PacketConnect, 0>>, <<PacketPublish, 0>>, <<PacketPublish, 3>>,
               <<PacketPubrel, 2>>, <<PacketSubscribe, 2>>, <<PacketPingreq, 0>>,
               <<PacketDisconnect, 0>>},
        rlen \in RemainingLengths}

\* The program uses an Rx on a transport, a Tx, or a Header.
\* The CONNECT variable headers that are sized and encoded: Protocol unset,
\* "MQTT" or "MQIsdp", and each other string empty or of one byte.
VarConns ==
    [Protocol : {<<>>, <<77, 81, 84, 84>>, <<77, 81, 73, 115, 100, 112>>},
     ClientID : {<<>>, <<99>>}, Username : {<<>>, <<117>>}, Password : {<<>>, <<112>>},
     WillTopic : {<<>>, <<119>>}, WillMessage : {<<>>, <<109>>}]

InitRxTx ==
    /\ NewClient
    /\ \/ \E bytes \in Streams, tailErr \in RxTails : rxtx = NewRxTx("Rx", bytes, tailErr)
       \/ rxtx = NewRxTx("Tx", <<>>, ErrEOF)
       \/ rxtx = NewRxTx("Header", <<>>, ErrEOF)

\* A call of Rx.ReadNextPacket.
RxRead ==
    /\ rxtx.use = "Rx"
    /\ ~rxtx.halted
    /\ ~rxtx.rxClosed
    /\ \E rx \in RxConfigs :
          LET res == Rx_ReadNextPacket(rx, rxtx.rd)
          IN  rxtx' = [rxtx EXCEPT !.rd = res.r, !.rxClosed = res.closed,
                                   !.halted = res.panic,
                                   !.last = [op |-> "ReadNextPacket", rx |-> rx,
                                             before |-> rxtx.rd, res |-> res]]
    /\ UNCHANGED clientVars

\* A call of one of the Write* methods that write a variable header.
TxWrite ==
    /\ rxtx.use = "Tx"
    /\ \E tx \in TxConfigs, method \in TxPackets, argsOK \in BOOLEAN,
          o \in WriteOutcomes(rxtx.txClosed, TxOutcomes) :
          LET res == Tx_WritePacket(tx, method, argsOK, o)
          IN  rxtx' = [rxtx EXCEPT !.txClosed = @ \/ res.closed,
                                   !.last = [op |-> "Write", tx |-> tx, method |-> method,
                                             argsOK |-> argsOK, o |-> o, res |-> res]]
    /\ UNCHANGED clientVars

\* A call of WriteSimple.
TxWriteSimple ==
    /\ rxtx.use = "Tx"
    /\ \E tx \in TxConfigs, argsOK \in BOOLEAN,
          o \in WriteOutcomes(rxtx.txClosed, SimpleOutcomes) :
          LET res == Tx_WriteSimple(tx, argsOK, o)
          IN  rxtx' = [rxtx EXCEPT !.txClosed = @ \/ res.closed,
                                   !.last = [op |-> "Write", tx |-> tx,
                                             method |-> "WriteSimple",
                                             argsOK |-> argsOK, o |-> o, res |-> res]]
    /\ UNCHANGED clientVars

\* Header.Size, Header.Encode into a buffer and DecodeHeader from that
\* buffer.
HeaderLoopback ==
    /\ rxtx.use = "Header"
    /\ ~rxtx.halted
    /\ \E hdr \in Headers :
          LET enc == Encode(hdr)
              dec == DecodeHeader(Reader(enc.bytes, ErrEOF))
          IN  rxtx' = [rxtx EXCEPT !.halted = (enc.err = ErrPanic),
                                   !.last = [op |-> "Encode", hdr |-> hdr,
                                             size |-> Size(hdr),
                                             enc |-> enc, dec |-> dec]]
    /\ UNCHANGED clientVars

\* VariablesConnect.Size and encodeConnect into io.Discard.
SizeConnect ==
    /\ rxtx.use = "Header"
    /\ ~rxtx.halted
    /\ \E varConn \in VarConns :
          rxtx' = [rxtx EXCEPT !.last = [op |-> "encodeConnect", varConn |-> varConn,
                                         size |-> VariablesConnectSize(varConn),
                                         enc |-> encodeConnect(varConn)]]
    /\ UNCHANGED clientVars

\* encodePublish: the topic as a string with its 2-byte length, then the
\* packet identifier unless qos is QoS0. The bytes it writes.
encodePublish(qos, varPub) ==
    <<Len(varPub.TopicName) \div 256, Len(varPub.TopicName) % 256>> \o varPub.TopicName
    \o (IF qos # QoS0
        THEN <<varPub.PacketIdentifier \div 256, varPub.PacketIdentifier % 256>>
        ELSE <<>>)

\* Client.PublishPayload on a connected client whose transport takes every
\* write: the error returned and the bytes written by WritePublishPayload, the
\* header with remaining length Size(qos) + len(payload), the variable header
\* and the payload. Size(qos) is the number of bytes encodePublish writes.
Client_PublishPayload(flags, varPub, payload) ==
    LET qos == QoS(flags)
        rl  == Len(encodePublish(qos, varPub)) + Len(payload)
    IN  IF ValidatePublish(varPub) # Nil
        THEN [err |-> ValidatePublish(varPub), bytes |-> <<>>]
        ELSE IF qos # QoS0
        THEN [err |-> Err("only supports QoS0"), bytes |-> <<>>]
        ELSE [err |-> Nil,
              bytes |-> Encode(newHeader(PacketPublish, flags, rl)).bytes
                        \o encodePublish(qos, varPub) \o payload]

\* Payloads "" and "hi".
Payloads == {<<>>, <<104, 105>>}

\* A call of PublishPayload on a connected client.
PublishOnWire ==
    /\ rxtx.use = "Header"
    /\ ~rxtx.halted
    /\ \E a \in PubArgs, payload \in Payloads :
          rxtx' = [rxtx EXCEPT !.last =
                      [op |-> "PublishPayload", a |-> a, payload |-> payload,
                       res |-> Client_PublishPayload(a.flags, a, payload)]]
    /\ UNCHANGED clientVars

\* The largest UserBuffer of a DecoderLowmem used on its own.
MaxUserBuffer == 8

\* Variable headers and payloads of CONNECT, SUBSCRIBE and UNSUBSCRIBE packets
\* as they arrive; strlen is the total length of their strings.
Bodies ==
    { [packet |-> PacketSubscribe, strlen |-> 2,      \* 1: "a" QoS 1, "b" QoS 0
       bytes |-> <<0, 1, 0, 1, 97, 1, 0, 1, 98, 0>>],
      [packet |-> PacketSubscribe, strlen |-> 2,      \* 1: "ab" QoS 1
       bytes |-> <<0, 1, 0, 2, 97, 98, 1>>],
      [packet |-> PacketUnsubscribe, strlen |-> 2,    \* 1: "a", "b"
       bytes |-> <<0, 1, 0, 1, 97, 0, 1, 98>>],
      [packet |-> PacketUnsubscribe, strlen |-> 3,    \* 1: "abc"
       bytes |-> <<0, 1, 0, 3, 97, 98, 99>>],
      [packet |-> PacketConnect, strlen |-> 5,        \* "MQTT", client "c"
       bytes |-> <<0, 4, 77, 81, 84, 84, 4, 2, 0, 60, 0, 1, 99>>],
      [packet |-> PacketConnect, strlen |-> 7,        \* the same with user "u", password "p"
       bytes |-> <<0, 4, 77, 81, 84, 84, 4, 194, 0, 60, 0, 1, 99, 0, 1, 117, 0, 1, 112>>] }

\* A DecoderLowmem with a UserBuffer of buflen bytes decodes a variable header.
DecodeLowmem ==
    /\ rxtx.use = "Header"
    /\ ~rxtx.halted
    /\ \E body \in Bodies, buflen \in 0..MaxUserBuffer :
          LET r == Reader(body.bytes, ErrEOF)
              d == CASE body.packet = PacketSubscribe ->
                          DecodeSubscribe(r, Len(body.bytes), buflen)
                     [] body.packet = PacketUnsubscribe ->
                          DecodeUnsubscribe(r, Len(body.bytes), buflen)
                     [] OTHER -> DecodeConnect(r, buflen)
          IN  rxtx' = [rxtx EXCEPT !.halted = (d.err = ErrPanic),
                                   !.last = [op |-> "Decode", body |-> body,
                                             buflen |-> buflen, err |-> d.err]]
    /\ UNCHANGED clientVars

NextRxTx == RxRead \/ TxWrite \/ TxWriteSimple \/ HeaderLoopback \/ SizeConnect \/ PublishOnWire
            \/ DecodeLowmem

SpecRxTx == InitRxTx /\ [][NextRxTx]_vars

(***************************************************************************)
(* The claims, checked under Spec unless said otherwise.                   *)
(***************************************************************************)
Ops == {"Disconnect", "StartSubscribe", "StartPing", "PublishPayload"}

\* The goroutine that has just come back from readNextWrapped holds err.
ReadReturned(err) == \E t \in Threads : pc[t] = "hn_post" /\ loc[t].err = err

\* C1: in every reachable state, whatever the operations, packets and
\* transport failures that led to it, connectedAt is zero if and only if
\* closeErr is non-nil.
C1_ConnectedAtIffNoCloseErr == (cs.connectedAt = 0) <=> (cs.closeErr # Nil)

\* A session ended by Disconnect after it had been connected.
C1_Witness ==
    /\ "Disconnect" \in ev.top
    /\ ev.wrote = PacketDisconnect
    /\ cs.connectedAt = 0
    /\ cs.closeErr \in UserErrs

\* C2: when a CONNECT has been written and HandleNext then processes a CONNACK
\* with return code 0, the client is connected: closeErr is nil, connectedAt
\* and lastRx hold the same nonzero time, activeSubs and pendingSubs are
\* empty, and the read reports no error.
C2_ConnackAcceptedConnects ==
    (ev.pkt = PacketConnack /\ ev.vars = <<0>> /\ ev.attempt)
        => /\ IsConnected(cs)
           /\ cs.closeErr = Nil
           /\ cs.connectedAt # 0
           /\ cs.connectedAt = cs.lastRx
           /\ cs.activeSubs = <<>>
           /\ cs.pendingSubs = ZeroSubscribe
           /\ ReadReturned(Nil)

\* The CONNACK arrives at time 2 for a CONNECT written at time 1.
C2_Witness ==
    /\ ev.pkt = PacketConnack
    /\ ev.vars = <<0>>
    /\ ev.attempt
    /\ IsConnected(cs)
    /\ cs.lastTx = 1
    /\ cs.connectedAt = 2

\* C3: Connect returns nil only if the client is connected at the moment it
\* returns; so when its context ends before a CONNACK is accepted, it returns
\* a non-nil error.
C3_ConnectNilOnlyIfConnected ==
    "Connect" \in ev.top => (ev.err = Nil => IsConnected(cs))

\* Connect returns nil, the client connected.
C3_Witness == ev.top = {"Connect"} /\ ev.err = Nil /\ IsConnected(cs)

\* C4: whenever HandleNext returns a non-nil error, the client is
\* disconnected when the call returns.
C4_HandleNextErrorDisconnects ==
    ("HandleNext" \in ev.top /\ ev.err # Nil) => ~IsConnected(cs)

\* A read that fails before any byte arrives on a connected client: no hook
\* runs, HandleNext itself disconnects and writes the DISCONNECT.
C4_Witness ==
    /\ ev.top = {"HandleNext"}
    /\ ev.err = ErrTimeout
    /\ ev.wrote = PacketDisconnect
    /\ cs.closeErr = ErrTimeout

\* C5: when the CONNACK that answers the CONNECT carries a nonzero return
\* code, the client stays disconnected, closeErr is that return code, the read
\* reports it, and a Connect that returns with the session closed by a
\* return code returns a non-nil error.
C5_ConnackRejected ==
    /\ (ev.pkt = PacketConnack /\ ev.attempt /\ ev.vars # <<0>>)
          => /\ ~IsConnected(cs)
             /\ cs.closeErr = ReturnCodeErr(ev.vars[1])
             /\ ReadReturned(ReturnCodeErr(ev.vars[1]))
    /\ ("Connect" \in ev.top /\ cs.closeErr.kind = "ConnectReturnCode")
          => ev.err # Nil

\* Connect returns the return code 5 of the CONNACK.
C5_Witness ==
    /\ ev.top = {"HandleNext", "Connect"}
    /\ ev.err = ReturnCodeErr(5)
    /\ cs.closeErr = ReturnCodeErr(5)

\* C6: from the moment Disconnect(userErr) has stored userErr on a connected
\* client, and as long as StartConnect installs no other transport, Err returns
\* userErr, whatever a concurrent or later HandleNext reads.
C6_ErrStaysUserErr ==
    [][(/\ cs.closeErr \in UserErrs
        /\ rxTrp' = rxTrp
        /\ (closed \/ \E t \in Threads : pc[t] = "d_rx"))
          => cs'.closeErr \in UserErrs]_vars

\* Disconnect wrote its DISCONNECT and Err returns userErr.
C6_Witness ==
    /\ "Disconnect" \in ev.top
    /\ ev.wrote = PacketDisconnect
    /\ ~IsConnected(cs)
    /\ cs.closeErr \in UserErrs

\* C7: Disconnect, StartSubscribe with valid filters, StartPing and
\* PublishPayload with valid arguments, called while the client is not
\* connected, return errDisconnected in the step that calls them: they start
\* no write and leave the session record unchanged.
C7_DisconnectedOpsRefused ==
    [][(/\ now' = now
        /\ ~IsConnected(cs)
        /\ \A t \in Threads : pc[t] \in {"idle", "sub_start", "ping_start"}
        /\ \/ ev'.top \cap Ops # {} /\ ev'.valid
           \/ \E t \in Threads : pc'[t] \in {"d_w", "ss_rec", "sp_w", "pp_w"})
          => (ev'.err = errDisconnected /\ ev'.wrote = 0 /\ cs' = cs)]_vars

\* StartPing refused on a client that a rejected CONNACK left disconnected.
C7_Witness ==
    /\ ev.top = {"StartPing"}
    /\ ev.err = errDisconnected
    /\ ev.wrote = 0
    /\ cs.closeErr = ReturnCodeErr(5)

\* C8: a CONNACK makes the client connected only if a CONNECT had been written
\* and neither a connection nor a disconnection had followed it.
C8_ConnectedOnlyFromConnecting ==
    (ev.pkt = PacketConnack /\ IsConnected(cs)) => ev.attempt

\* C9: a CONNACK processed while the client is connected makes the read fail
\* with an error, and the session is disconnected with that error as closeErr.
C9_ConnackWhileConnected ==
    (ev.pkt = PacketConnack /\ ev.connected)
        => /\ ~IsConnected(cs)
           /\ cs.closeErr = Err("connack received while connected")
           /\ ReadReturned(cs.closeErr)

\* A second CONNACK with return code 0 on a connected client.
C9_Witness ==
    /\ ev.pkt = PacketConnack
    /\ ev.vars = <<0>>
    /\ ev.connected
    /\ ~IsConnected(cs)

\* The filters of a SUBSCRIBE whose return code is not the failure marker.
RECURSIVE Granted(_, _)
Granted(filters, codes) ==
    IF filters = <<>> THEN <<>>
    ELSE (IF Head(codes) = QoSSubfail THEN <<>> ELSE <<Head(filters).TopicFilter>>)
         \o Granted(Tail(filters), Tail(codes))

\* C10: if a SUBSCRIBE with N filters is pending and a SUBACK with N return
\* codes, each the requested QoS or 0x80, is processed, then the filters whose
\* code is not 0x80 are appended to activeSubs in request order, the pending
\* subscribe is cleared and the client stays connected.
C10_SubackApplied ==
    [][(/\ now' = now
        /\ ev'.pkt = PacketSuback
        /\ Len(cs.pendingSubs.TopicFilters) > 0
        /\ Len(ev'.vars) = Len(cs.pendingSubs.TopicFilters)
        /\ \A i \in 1..Len(ev'.vars) :
              ev'.vars[i] \in {QoSSubfail, cs.pendingSubs.TopicFilters[i].QoS})
          => /\ cs'.activeSubs = cs.activeSubs \o Granted(cs.pendingSubs.TopicFilters, ev'.vars)
             /\ cs'.pendingSubs.TopicFilters = <<>>
             /\ IsConnected(cs')
             /\ ReadReturned(Nil)']_vars

\* Filters (a, QoS1), (b, QoS0) acknowledged with codes 1 0.
C10_Witness ==
    /\ ev.pkt = PacketSuback
    /\ ev.vars = <<1, 0>>
    /\ cs.activeSubs = <<<<97>>, <<98>>>>
    /\ cs.pendingSubs.TopicFilters = <<>>
    /\ IsConnected(cs)

ErrSubackMismatch ==
    Err("got mismatched number of return codes compared to pending client subscriptions")

C12_PingIdempotent ==
    [][(/\ now' = now
        /\ AwaitingPingresp(cs)
        /\ ev'.top = {"StartPing"}
        /\ ev'.err = Nil)
          => /\ cs'.pendingPingresp = cs.pendingPingresp
             /\ ev'.wrote # PacketPingreq]_vars

\* C12 amended: a StartPing that succeeds, also while a PINGREQ is
\* unanswered, has written a PINGREQ and sets the time of the ping to the
\* current time; AwaitingPingresp stays true.
C12_PingRestarts ==
    [][(/\ now' = now
        /\ ev'.top = {"StartPing"}
        /\ ev'.err = Nil)
          => /\ ev'.wrote = PacketPingreq
             /\ cs'.pendingPingresp = now
             /\ AwaitingPingresp(cs')]_vars

\* A second StartPing at time 2 while the ping of time 1 is unanswered.
C12_Witness ==
    /\ ev.top = {"StartPing"}
    /\ ev.err = Nil
    /\ cs.connectedAt = 1
    /\ cs.lastRx = 1
    /\ cs.pendingPingresp = 2

\* C13: on a connected client with no StartPing under way, AwaitingPingresp
\* is true exactly when a PINGREQ has been written in this session and no
\* PINGRESP has been processed since.
C13_AwaitingIffUnanswered ==
    (IsConnected(cs) /\ \A t \in Threads : pc[t] \notin {"sp_w", "sp_sent"})
        => (AwaitingPingresp(cs) <=> pinged)

\* C14: when Subscribe or Ping returns from its wait with its context alive
\* and the session it noted at the call is no longer the current one, it
\* returns errDisconnected.
C14_SessionLostReturnsDisconnected ==
    (/\ ev.call.caller \in {"Subscribe", "Ping"}
     /\ ev.call.ctx = Nil
     /\ ev.call.session # 0
     /\ cs.connectedAt # ev.call.session)
        => ev.err = errDisconnected

\* The response a blocking method waits for has arrived.
Arrived(call) ==
    IF call.caller = "Connect" THEN IsConnected(cs)
    ELSE IF call.caller = "Subscribe" THEN ~AwaitingSuback(cs)
    ELSE cs.pendingPingresp # call.pingTime

C16_NoAssertionPanic == ev.err # ErrAssertion

\* C17: no state is reachable in which one call holds rxlock and waits for
\* txlock while another holds txlock and waits for rxlock.
C17_NoLockDeadlock ==
    ~ \E a, b \in Threads :
         /\ a # b
         /\ rxlock = a /\ pc[a] = "sc_tx"
         /\ txlock = b /\ pc[b] = "d_rx"

\* A Write* call of Tx is under way.
Writing == {"sc_w", "hn_w", "d_w", "ss_w", "sp_w", "pp_w"}

\* C18: at most one goroutine is inside ReadNextPacket and at most one inside
\* a Write* call of Tx; and a step that replaces or closes the transport is
\* taken only when no goroutine is inside either.
C18_OneReaderOneWriter ==
    [][/\ Cardinality({t \in Threads : pc'[t] = "hn_read"}) <= 1
       /\ Cardinality({t \in Threads : pc'[t] \in Writing}) <= 1
       /\ (rxTrp' # rxTrp \/ txTrp' # txTrp \/ closed' # closed)
             => \A t \in Threads : pc[t] # "hn_read" /\ pc[t] \notin Writing]_vars

\* A read and a write under way at once, and a transport closed by
\* Disconnect.
C18_Witness ==
    \E r, w \in Threads :
       pc[r] = "hn_read" /\ pc[w] = "pp_w" /\ txlock = w /\ rxlock = r

\* A read is under way.
Reading == \E r \in Threads : pc[r] = "hn_read" /\ rxlock = r

\* The next step of a goroutine inside PublishPayload, StartPing,
\* StartSubscribe or Disconnect can be taken.
CanGoOn(t) ==
    ENABLED (\/ txWriteSimple(t) \/ txWriteSubscribe(t) \/ txWritePublishPayload(t)
             \/ StartSubscribeCopy(t) \/ StartPingSent(t) \/ DisconnectClose(t))

C20_DisconnectedLastRxZero == ~IsConnected(cs) => cs.lastRx = 0

\* C21: whenever the client is disconnected, LastTx returns the zero time.
C21_DisconnectedLastTxZero == ~IsConnected(cs) => cs.lastTx = 0

\* C22: whenever the client is disconnected, AwaitingSuback returns false.
C22_DisconnectedNotAwaitingSuback == ~IsConnected(cs) => ~AwaitingSuback(cs)

(***************************************************************************)
(* The claims about Rx, Tx and Header on their own, checked under          *)
(* SpecRxTx.                                                               *)
(***************************************************************************)
\* The last call was a ReadNextPacket on a transport, and it returned.
ReadReturnedRx ==
    /\ rxtx.last.op = "ReadNextPacket"
    /\ rxtx.last.rx.rxTrp # ""
    /\ ~rxtx.last.res.panic

\* The number of bytes that call took from the transport.
Consumed == Len(rxtx.last.before.buf) - Len(rxtx.last.res.r.buf)

\* C23: a ReadNextPacket whose header decode fails before any byte was read
\* returns that error as it is, calls no packet callback and no error hook
\* and leaves the transport open; a ReadNextPacket that fails after a byte
\* was read calls the error hook once and leaves the transport open if the
\* hook is set, and closes the transport without calling a hook if it is not.
C23_RxErrorHandling ==
    (ReadReturnedRx /\ rxtx.last.res.err # Nil) =>
        IF Consumed = 0
        THEN /\ rxtx.last.res.err = decodeByte(rxtx.last.before).err
             /\ rxtx.last.res.n = 0
             /\ rxtx.last.res.calls = <<>>
             /\ rxtx.last.res.hooks = 0
             /\ ~rxtx.last.res.closed
        ELSE IF rxtx.last.rx.OnRxError
        THEN rxtx.last.res.hooks = 1 /\ ~rxtx.last.res.closed
        ELSE rxtx.last.res.hooks = 0 /\ rxtx.last.res.closed

\* A read without error hook failed after the header was read, and closed
\* the transport.
C23_Witness ==
    /\ ReadReturnedRx
    /\ rxtx.last.res.err # Nil
    /\ rxtx.last.res.n >= 2
    /\ ~rxtx.last.rx.OnRxError
    /\ rxtx.last.res.closed

\* C24: a read of bytes whose four length bytes all have bit 7 set, such as
\* 10 FF FF FF FF, fails with the malformed remaining length error and, no
\* error hook being set, closes the transport.
C24_ContinuationOnAllLengthBytes ==
    (/\ ReadReturnedRx
     /\ ~rxtx.last.rx.OnRxError
     /\ Len(rxtx.last.before.buf) >= 5
     /\ \A i \in 2..5 : rxtx.last.before.buf[i] >= 128)
        => /\ rxtx.last.res.err = Err("malformed remaining length")
           /\ rxtx.last.res.closed

\* The number of bytes of the fixed header the last read decoded.
HeaderBytes == DecodeHeader(rxtx.last.before).n

\* C25: after a ReadNextPacket that succeeds on a PUBLISH the transport
\* stands right behind the packet, its header and remaining-length bytes
\* consumed, whether OnPub read the payload or, OnPub not being set, the
\* payload was drained; and whenever OnPub is called, no more than the payload
\* is taken from the transport after the variable header.
C25_PublishConsumesRemainingLength ==
    (ReadReturnedRx /\ Type(rxtx.last.res.hdr) = PacketPublish) =>
        /\ rxtx.last.res.err = Nil =>
              rxtx.rd.buf = SubSeq(rxtx.last.before.buf,
                                   HeaderBytes + rxtx.last.res.hdr.RemainingLength + 1,
                                   Len(rxtx.last.before.buf))
        /\ rxtx.last.res.calls # <<>> =>
              /\ Consumed >= rxtx.last.res.n
              /\ Consumed <= HeaderBytes + rxtx.last.res.hdr.RemainingLength
                    \/ Consumed = rxtx.last.res.n

\* A PUBLISH with a payload was read with no OnPub set, and the transport
\* stands at the PINGRESP that follows it.
C25_Witness ==
    /\ ReadReturnedRx
    /\ Type(rxtx.last.res.hdr) = PacketPublish
    /\ rxtx.last.res.err = Nil
    /\ rxtx.last.rx.OnPub = "nil"
    /\ Consumed > rxtx.last.res.n
    /\ rxtx.rd.buf = <<208, 128>>

\* C26: a ReadNextPacket that succeeds returns the number of bytes it took
\* from the transport, the payload of a PUBLISH included.
C26_ReturnsBytesConsumed ==
    (ReadReturnedRx /\ rxtx.last.res.err = Nil) => rxtx.last.res.n = Consumed

\* The packet identifier decoded from the bytes that follow the fixed header.
IdentifierRead == decodeUint16(DecodeHeader(rxtx.last.before).r).value

\* C27: ReadNextPacket calls OnConnack only for a CONNACK of remaining
\* length 2, OnOther with the decoded identifier only for a PUBACK, PUBREC,
\* PUBREL, PUBCOMP or UNSUBACK of remaining length 2, and OnOther with
\* identifier 0 only for a DISCONNECT, PINGREQ or PINGRESP of remaining
\* length 0; with any other remaining length on these packets it returns an
\* error, calls no packet callback and runs the error handling.
C27_CallbacksNeedRightRemainingLength ==
    ReadReturnedRx =>
        LET hdr == rxtx.last.res.hdr
            tp == Type(hdr)
            identified == {PacketPuback, PacketPubrec, PacketPubrel, PacketPubcomp,
                           PacketUnsuback}
            simple == {PacketDisconnect, PacketPingreq, PacketPingresp}
            wanted == IF tp \in simple THEN 0 ELSE 2
        IN  /\ \A i \in DOMAIN rxtx.last.res.calls :
                 LET call == rxtx.last.res.calls[i]
                 IN  /\ call.cb = "OnConnack" =>
                           tp = PacketConnack /\ hdr.RemainingLength = 2
                     /\ call.cb = "OnOther" =>
                           \/ /\ tp \in identified
                              /\ hdr.RemainingLength = 2
                              /\ call.arg = IdentifierRead
                           \/ /\ tp \in simple
                              /\ hdr.RemainingLength = 0
                              /\ call.arg = 0
            /\ (tp \in {PacketConnack} \cup identified \cup simple
                /\ hdr.RemainingLength # wanted) =>
                  /\ rxtx.last.res.err = ErrBadRemainingLen
                  /\ rxtx.last.res.calls = <<>>
                  /\ IF rxtx.last.rx.OnRxError
                     THEN rxtx.last.res.hooks = 1
                     ELSE rxtx.last.res.closed

\* A PINGRESP of remaining length 1 was refused and the error hook ran.
C27_Witness ==
    /\ ReadReturnedRx
    /\ rxtx.last.res.hdr = newHeader(PacketPingresp, 0, 1)
    /\ rxtx.last.rx.cb = "ok"
    /\ rxtx.last.res.err = ErrBadRemainingLen
    /\ rxtx.last.res.calls = <<>>
    /\ rxtx.last.res.hooks = 1

\* The first byte of the bytes read is one the claim calls invalid, and the
\* length bytes that follow it decode.
InvalidFixedHeader ==
    /\ Len(rxtx.last.before.buf) >= 2
    /\ decodeRemainingLength(decodeByte(rxtx.last.before).r).err = Nil
    /\ LET tp == rxtx.last.before.buf[1] \div 16
           pf == rxtx.last.before.buf[1] % 16
       IN  \/ tp \in {0, 15}
           \/ tp \in {PacketPubrel, PacketSubscribe, PacketUnsubscribe} /\ pf # 2
           \/ tp \notin {0, 15, PacketPublish, PacketPubrel, PacketSubscribe,
                         PacketUnsubscribe} /\ pf # 0
           \/ tp = PacketPublish /\ (QoS(pf) = 3 \/ (pf \div 8 = 1 /\ QoS(pf) = 0))

\* C28: a packet whose fixed header has type 0 or 15, flags other than 0b0010
\* on PUBREL, SUBSCRIBE or UNSUBSCRIBE, flags other than 0 on another type
\* that is not PUBLISH, or on PUBLISH QoS 3 or DUP with QoS 0, is refused by
\* ReadNextPacket with only the fixed header taken from the transport and no
\* packet callback called.
C28_InvalidHeaderRejectedEarly ==
    (ReadReturnedRx /\ InvalidFixedHeader) =>
        /\ rxtx.last.res.err # Nil
        /\ rxtx.last.res.calls = <<>>
        /\ Consumed = 1 + decodeRemainingLength(decodeByte(rxtx.last.before).r).n

\* C29: in every Write* of Tx the success hook runs only when the packet was
\* written in full without error; when the write fails after bytes were
\* written, the error hook runs, or the transport is closed if no error hook
\* is set, and the success hook does not run.
C29_TxHooks ==
    rxtx.last.op = "Write" =>
        /\ rxtx.last.res.okHooks > 0 =>
              rxtx.last.o.kind = "ok" /\ rxtx.last.res.err = Nil
        /\ (/\ rxtx.last.tx.txTrp # ""
            /\ rxtx.last.res.err = rxtx.last.o.err
            /\ rxtx.last.o.kind \in {"errPartial", "errBody"}) =>
              /\ rxtx.last.res.okHooks = 0
              /\ IF rxtx.last.tx.OnTxError
                 THEN rxtx.last.res.errHooks = 1 /\ ~rxtx.last.res.closed
                 ELSE rxtx.last.res.errHooks = 0 /\ rxtx.last.res.closed

\* C30: for a header with a valid type and flags and a remaining length of
\* at most 0x0FFF_FFFF, DecodeHeader on the bytes Encode wrote gives the
\* header back and decodes as many bytes as were encoded.
C30_HeaderRoundTrip ==
    (rxtx.last.op = "Encode" /\ rxtx.last.hdr.RemainingLength <= 268435455) =>
        /\ rxtx.last.enc.err = Nil
        /\ rxtx.last.dec.err = Nil
        /\ rxtx.last.dec.hdr = rxtx.last.hdr
        /\ rxtx.last.dec.n = rxtx.last.enc.n

\* C31: Header.Size is 2 for a remaining length of 0..127, 3 for 128..16383,
\* 4 for 16384..2097151, 5 for 2097152..268435455 and 0 above, and up to
\* 268435455 it is the number of bytes Encode writes.
C31_SizeFollowsTable ==
    rxtx.last.op = "Encode" =>
        LET rl == rxtx.last.hdr.RemainingLength
        IN  /\ rxtx.last.size = IF rl <= 127 THEN 2
                                ELSE IF rl <= 16383 THEN 3
                                ELSE IF rl <= 2097151 THEN 4
                                ELSE IF rl <= 268435455 THEN 5
                                ELSE 0
            /\ rl <= 268435455 => rxtx.last.size = rxtx.last.enc.n

\* C32: Encode of a header whose remaining length is above 0x0FFF_FFFF
\* returns an error, does not panic and writes no byte; a remaining length
\* up to that bound is written in the 1 to 4 bytes of the canonical form, 0
\* as one zero byte.
C32_EncodeBounds ==
    rxtx.last.op = "Encode" =>
        LET rl == rxtx.last.hdr.RemainingLength
            enc == rxtx.last.enc
        IN  IF rl > 268435455
            THEN enc.err \notin {Nil, ErrPanic} /\ enc.bytes = <<>>
            ELSE /\ enc.err = Nil
                 /\ enc.bytes[1] = rxtx.last.hdr.firstByte
                 /\ enc.n = Len(enc.bytes)
                 /\ enc.n = IF rl <= 127 THEN 2
                            ELSE IF rl <= 16383 THEN 3
                            ELSE IF rl <= 2097151 THEN 4
                            ELSE 5
                 /\ \A i \in 2..enc.n :
                       enc.bytes[i] = ((rl \div (128 ^ (i - 2))) % 128)
                                      + (IF i < enc.n THEN 128 ELSE 0)

\* C33: for every CONNECT variable header, Size is the number of bytes that
\* encodeConnect writes.
C33_ConnectSizeIsBytesWritten ==
    rxtx.last.op = "encodeConnect" => rxtx.last.size = rxtx.last.enc.n

\* C34: PublishPayload on a connected client with QoS 0 flags, a non-empty
\* topic and packet identifier 0 succeeds and writes one PUBLISH without
\* identifier whose remaining length is 2 + topic length + payload length.
C34_PublishQoS0WithoutIdentifier ==
    (/\ rxtx.last.op = "PublishPayload"
     /\ QoS(rxtx.last.a.flags) = QoS0
     /\ Len(rxtx.last.a.TopicName) > 0
     /\ rxtx.last.a.PacketIdentifier = 0)
    => /\ rxtx.last.res.err = Nil
       /\ rxtx.last.res.bytes =
             <<48, 2 + Len(rxtx.last.a.TopicName) + Len(rxtx.last.payload),
               0, Len(rxtx.last.a.TopicName)>>
             \o rxtx.last.a.TopicName \o rxtx.last.payload

\* C35: a decode of CONNECT, SUBSCRIBE or UNSUBSCRIBE into a user buffer of
\* any size never slices outside the buffer, and when the strings do not fit
\* in the buffer it returns the user-buffer-full error.
C35_StringsFitOrBufferFull ==
    rxtx.last.op = "Decode"
    => /\ rxtx.last.err # ErrPanic
       /\ rxtx.last.body.strlen > rxtx.last.buflen => rxtx.last.err = ErrUserBufferFull

\* C36: with a non-allocating decoder whose buffer is at least as large as the
\* input, one ReadNextPacket returns without panicking, whatever the input.
C36_ReadNextPacketReturns ==
    (/\ rxtx.last.op = "ReadNextPacket"
     /\ rxtx.last.rx.UserBuffer >= Len(rxtx.last.before.buf))
    => ~rxtx.last.res.panic

\* A first read of a CONNECT, a SUBSCRIBE or an UNSUBSCRIBE whose strings were
\* decoded into the buffer.
C36_Witness ==
    /\ rxtx.last.op = "ReadNextPacket"
    /\ rxtx.last.rx.UserBuffer >= Len(rxtx.last.before.buf)
    /\ Type(rxtx.last.res.hdr) \in {PacketConnect, PacketSubscribe, PacketUnsubscribe}
    /\ rxtx.last.res.err = Nil
    /\ rxtx.last.res.n = Len(rxtx.last.before.buf)

\* C37: a StartConnect on a connected client returns an error and has no
\* effect: it writes nothing and leaves the session and the transport of both
\* directions as they were.
C37_StartConnectWhileConnected ==
    [][("StartConnect" \in ev'.top
        /\ ev'.err = Err("already connected; disconnect before connecting"))
       => /\ ev'.wrote = 0
          /\ cs' = cs
          /\ rxTrp' = rxTrp
          /\ txTrp' = txTrp]_vars

\* C38: a StartSubscribe that returns an error leaves no subscribe pending
\* that was not pending before the call: none when the error is that of the
\* SUBSCRIBE write, the same one when the call was refused before the write.
C38_FailedSubscribeNotPending ==
    [][("StartSubscribe" \in ev'.top /\ ev'.err # Nil)
       => IF \E t \in Threads : pc[t] = "ss_w"
          THEN ~AwaitingSuback(cs')
          ELSE cs'.pendingSubs = cs.pendingSubs]_vars

\* C39: a SUBACK that is rejected, for its number of return codes or for a
\* granted QoS other than the requested one, at whatever place in the SUBACK,
\* leaves activeSubs as it was.
C39_RejectedSubackAddsNothing ==
    [][(/\ now' = now
        /\ ev'.pkt = PacketSuback
        /\ \/ Len(ev'.vars) # Len(cs.pendingSubs.TopicFilters)
           \/ \E i \in 1..Len(ev'.vars) :
                 /\ ev'.vars[i] # QoSSubfail
                 /\ ev'.vars[i] # cs.pendingSubs.TopicFilters[i].QoS)
          => cs'.activeSubs = cs.activeSubs]_vars

\* C40: a SUBACK whose packet identifier is not that of the pending SUBSCRIBE,
\* or that arrives when no SUBSCRIBE is pending, changes neither activeSubs
\* nor pendingSubs.
C40_SubackIdentifierMatched ==
    [][(/\ now' = now
        /\ ev'.pkt = PacketSuback
        /\ \/ ~AwaitingSuback(cs)
           \/ ev'.id # cs.pendingSubs.PacketIdentifier)
          => /\ cs'.activeSubs = cs.activeSubs
             /\ cs'.pendingSubs = cs.pendingSubs]_vars

====
